---- MODULE Spec2Model ----
(***************************************************************************)
(* Model of the aakeedo_kanji toolkit: six tool functions                  *)
(* (tools/kanji_api_tools.py, tools/wakani_api_tools.py) that validate an  *)
(* input, call one fetcher (http_clients/*.py) which issues one HTTP GET,  *)
(* validate the JSON body against a pydantic model (models/*.py) and       *)
(* return a serialized payload or raise a categorized error.               *)
(*                                                                         *)
(* Strings are sequences of symbols (one symbol per character; a fixed     *)
(* literal of the source is one symbol).  Python values are tagged         *)
(* records so that None, str, int, list and dict stay distinguishable.     *)
(***************************************************************************)
EXTENDS Integers, Sequences, FiniteSets, TLC

\* ---------------------------------------------------------------- bounds
\* Longest caller-supplied string (in characters) tried as a tool input.
MaxLen == 3

\* Number of tool invocations that may be in flight at once.
NProcs == 2

\* ---------------------------------------------------------- Python values
PyNone == [t |-> "none"]

PyStr(s) == [t |-> "str", s |-> s]

PyInt(n) == [t |-> "int", n |-> n]

PyList(xs) == [t |-> "list", xs |-> xs]

PyDict(d) == [t |-> "dict", d |-> d]

\* isinstance(v, str)
IsStr(v) == v.t = "str"

\* isinstance(v, list)
IsList(v) == v.t = "list"

\* Python truthiness of the values the tools test with `not x` / `if x`.
Truthy(v) ==
    CASE v.t = "none" -> FALSE
      [] v.t = "str"  -> Len(v.s) > 0
      [] v.t = "list" -> Len(v.xs) > 0
      [] v.t = "int"  -> v.n # 0
      [] OTHER        -> TRUE

\* str(v) as interpolated by an f-string: the characters of a str, "None" for None.
Format(v) == IF v.t = "str" THEN v.s ELSE <<"None">>

\* ------------------------------------------------------------ str methods
\* Characters str.strip() removes (the model's alphabet holds one of them).
Whitespace == {" "}

\* The characters caller-supplied strings are drawn from: a whitespace, an
\* upper-case and a lower-case form of one letter, and a caseless kanji
\* (the character U+6C34, "water", written here by its code point).
Alphabet == {" ", "G", "g", "U+6C34"}

\* str.lower() on one character.
LowerChar(c) == IF c = "G" THEN "g" ELSE c

\* str.lower()
lower(s) == [i \in 1..Len(s) |-> LowerChar(s[i])]

RECURSIVE lstrip(_)
lstrip(s) == IF s # <<>> /\ Head(s) \in Whitespace THEN lstrip(Tail(s)) ELSE s

RECURSIVE rstrip(_)
rstrip(s) ==
    IF s # <<>> /\ s[Len(s)] \in Whitespace THEN rstrip(SubSeq(s, 1, Len(s) - 1)) ELSE s

\* str.strip(): leading and trailing whitespace removed.
strip(s) == rstrip(lstrip(s))

\* str.rstrip("/")
RECURSIVE rstrip_slash(_)
rstrip_slash(s) ==
    IF s # <<>> /\ s[Len(s)] = "/" THEN rstrip_slash(SubSeq(s, 1, Len(s) - 1)) ELSE s

\* All strings of at most n characters over the alphabet.
StringsUpTo(n) == UNION {[1..k -> Alphabet] : k \in 0..n}

\* Values a caller may pass as a tool argument: any bounded string, or None.
InputsUpTo(n) == {PyStr(s) : s \in StringsUpTo(n)} \cup {PyNone}

\* ------------------------------------------------------- pydantic models
\* Field(...): required.
Required(ty) == [ty |-> ty, required |-> TRUE, default |-> PyNone]

\* Field(None): optional, absent means None.
Optional(ty) == [ty |-> ty, required |-> FALSE, default |-> PyNone]

\* Field(default_factory=list): optional, absent means [].
DefaultList(ty) == [ty |-> ty, required |-> FALSE, default |-> PyList(<<>>)]

\* A detail schema in which the codepoint is optional.
KanjiDetailModelFields_unicode_optional ==
    [kanji |-> Required("str"),
     grade |-> Optional("int|None"),
     stroke_count |-> Required("int"),
     meanings |-> Required("list[str]"),
     kun_readings |-> DefaultList("list[str]"),
     on_readings |-> DefaultList("list[str]"),
     name_readings |-> DefaultList("list[str]"),
     jlpt |-> Optional("int|None"),
     unicode |-> Optional("str|None"),
     heisig_en |-> Optional("str|None"),
     freq_mainichi_shinbun |-> Optional("int|None"),
     unihan_cjk_compatibility_variant |-> Optional("str|None"),
     notes |-> DefaultList("list[str]")]

KanjiDetailModelFields ==
    [kanji |-> Required("str"),
     grade |-> Optional("int|None"),
     stroke_count |-> Required("int"),
     meanings |-> Required("list[str]"),
     kun_readings |-> DefaultList("list[str]"),
     on_readings |-> DefaultList("list[str]"),
     name_readings |-> DefaultList("list[str]"),
     jlpt |-> Optional("int|None"),
     unicode |-> Required("str"),
     heisig_en |-> Optional("str|None"),
     freq_mainichi_shinbun |-> Optional("int|None"),
     unihan_cjk_compatibility_variant |-> Optional("str|None"),
     notes |-> DefaultList("list[str]")]

KanjiReadingFields ==
    [reading |-> Required("str"),
     main_kanji |-> Required("list[str]"),
     name_kanji |-> Required("list[str]")]

MeaningFields == [glosses |-> Required("list[str]")]

VariantFields ==
    [written |-> Required("str"),
     pronounced |-> Optional("str|None"),
     priorities |-> DefaultList("list[str]")]

WordEntryFields ==
    [meanings |-> Required("list[Meaning]"),
     variants |-> Required("list[Variant]")]

UserDataFields == [username |-> Required("str"), level |-> Required("int")]

UserResponseFields ==
    [object |-> Required("str"),
     url |-> Required("HttpUrl"),
     data_updated_at |-> Optional("str|None"),
     data |-> Required("UserData")]

\* The declared fields of a model class.
Fields(cls) ==
    CASE cls = "KanjiDetailModel" -> KanjiDetailModelFields
      [] cls = "KanjiReading"     -> KanjiReadingFields
      [] cls = "Meaning"          -> MeaningFields
      [] cls = "Variant"          -> VariantFields
      [] cls = "WordEntry"        -> WordEntryFields
      [] cls = "UserData"         -> UserDataFields
      [] cls = "UserResponse"     -> UserResponseFields

\* pydantic's HttpUrl: a string that starts with an http scheme and names a host.
IsHttpUrl(s) == Len(s) >= 2 /\ s[1] \in {"http://", "https://"}

\* Whether value v validates as annotation ty.  A str field takes only a str
\* and an int field only an int (the bodies of this model hold no value that
\* pydantic would coerce); keys that are not declared fields are ignored.
RECURSIVE Validates(_, _)
Validates(ty, v) ==
    CASE ty = "str"           -> v.t = "str"
      [] ty = "int"           -> v.t = "int"
      [] ty = "str|None"      -> v.t \in {"str", "none"}
      [] ty = "int|None"      -> v.t \in {"int", "none"}
      [] ty = "HttpUrl"       -> v.t = "str" /\ IsHttpUrl(v.s)
      [] ty = "list[str]"     ->
            v.t = "list" /\ \A i \in 1..Len(v.xs) : v.xs[i].t = "str"
      [] ty = "list[Meaning]" ->
            v.t = "list" /\ \A i \in 1..Len(v.xs) : Validates("Meaning", v.xs[i])
      [] ty = "list[Variant]" ->
            v.t = "list" /\ \A i \in 1..Len(v.xs) : Validates("Variant", v.xs[i])
      [] OTHER                ->
            /\ v.t = "dict"
            /\ \A f \in DOMAIN Fields(ty) :
                  IF f \in DOMAIN v.d
                  THEN Validates(Fields(ty)[f].ty, v.d[f])
                  ELSE ~Fields(ty)[f].required

\* The validated value: nested dicts become model instances, absent fields
\* take their default, undeclared keys are dropped.
RECURSIVE Construct(_, _)
Construct(ty, v) ==
    CASE ty \in {"list[Meaning]", "list[Variant]"} ->
            PyList([i \in 1..Len(v.xs) |->
                      Construct(IF ty = "list[Meaning]" THEN "Meaning" ELSE "Variant",
                                v.xs[i])])
      [] ty \in {"Meaning", "Variant", "WordEntry", "UserData", "UserResponse",
                 "KanjiDetailModel", "KanjiReading"} ->
            [t |-> "model", cls |-> ty,
             f |-> [f \in DOMAIN Fields(ty) |->
                      IF f \in DOMAIN v.d
                      THEN Construct(Fields(ty)[f].ty, v.d[f])
                      ELSE Fields(ty)[f].default]]
      [] OTHER -> v

\* Result of evaluating an expression that may raise.
\* raised names the exception class ("" when none), logged what was printed.
Value(v) == [raised |-> "", value |-> v, logged |-> {}]

Raise(exc) == [raised |-> exc, value |-> PyNone, logged |-> {}]

\* Cls(**data): TypeError when data is no mapping, ValidationError when a
\* field is missing or ill-typed, else the instance.
New(cls, data) ==
    IF data.t # "dict" THEN Raise("TypeError")
    ELSE IF ~Validates(cls, data) THEN Raise("ValidationError")
    ELSE Value(Construct(cls, data))

KanjiDetailModel(data) == New("KanjiDetailModel", data)

KanjiReading(data) == New("KanjiReading", data)

WordEntry(data) == New("WordEntry", data)

UserResponse(data) == New("UserResponse", data)

\* A dump that leaves out every empty value: None and empty lists alike.
RECURSIVE model_dump_exclude_empty(_)
model_dump_exclude_empty(v) ==
    CASE v.t = "model" ->
            PyDict([f \in {g \in DOMAIN v.f : v.f[g] # PyNone /\ v.f[g] # PyList(<<>>)} |->
                      model_dump_exclude_empty(v.f[f])])
      [] v.t = "list" ->
            PyList([i \in 1..Len(v.xs) |-> model_dump_exclude_empty(v.xs[i])])
      [] OTHER -> v

\* A plain model_dump(): every field is written, None included.
RECURSIVE model_dump_keeping_none(_)
model_dump_keeping_none(v) ==
    CASE v.t = "model" ->
            PyDict([f \in DOMAIN v.f |-> model_dump_keeping_none(v.f[f])])
      [] v.t = "list" ->
            PyList([i \in 1..Len(v.xs) |-> model_dump_keeping_none(v.xs[i])])
      [] OTHER -> v

\* BaseModel.model_dump(exclude_none=True): a dict of the fields whose value
\* is not None (an empty list is kept), nested models dumped the same way.
RECURSIVE model_dump_exclude_none(_)
model_dump_exclude_none(v) ==
    CASE v.t = "model" ->
            PyDict([f \in {g \in DOMAIN v.f : v.f[g] # PyNone} |->
                      model_dump_exclude_none(v.f[f])])
      [] v.t = "list" ->
            PyList([i \in 1..Len(v.xs) |-> model_dump_exclude_none(v.xs[i])])
      [] OTHER -> v

\* The JSON value json.dumps writes for a Python value: None as null, an int
\* as a number, a str as a string, a list as an array, a dict as an object
\* with one member per key.
RECURSIVE json_encode(_)
json_encode(v) ==
    CASE v.t = "none" -> [j |-> "null"]
      [] v.t = "int"  -> [j |-> "number", n |-> v.n]
      [] v.t = "str"  -> [j |-> "string", chars |-> v.s]
      [] v.t = "list" -> [j |-> "array", items |-> [i \in 1..Len(v.xs) |-> json_encode(v.xs[i])]]
      [] v.t = "dict" -> [j |-> "object", members |-> [k \in DOMAIN v.d |-> json_encode(v.d[k])]]

\* The Python value json.loads builds from a JSON value.
RECURSIVE json_decode(_)
json_decode(x) ==
    CASE x.j = "null"   -> PyNone
      [] x.j = "number" -> PyInt(x.n)
      [] x.j = "string" -> PyStr(x.chars)
      [] x.j = "array"  -> PyList([i \in 1..Len(x.items) |-> json_decode(x.items[i])])
      [] x.j = "object" -> PyDict([k \in DOMAIN x.members |-> json_decode(x.members[k])])

\* json.dumps(v): the JSON text of v, a str.
json_dumps(v) == [t |-> "jsontext", v |-> json_encode(v)]

\* json.loads(text)
json_loads(text) == json_decode(text.v)

\* BaseModel.model_dump_json(): the JSON text of every field, None included.
model_dump_json(m) == json_dumps(PyDict(m.f))

\* ----------------------------------------------------------- configuration
\* Process environments: nothing set, or the profile base URL overridden
\* with a value that carries no trailing slash.
EnvUnset ==
    [KANJI_API_BASE_URL |-> PyNone,
     WANIKANI_API_BASE_URL |-> PyNone,
     WANIKANI_API_REVISION |-> PyNone]

EnvOverride ==
    [EnvUnset EXCEPT !.WANIKANI_API_BASE_URL =
                        PyStr(<<"https://", "api.wanikani.com", "/", "v2">>)]

Envs == {EnvUnset, EnvOverride}

\* AakeedoConfig(): each field from the environment, else its default.
AakeedoConfig(e) ==
    [kanji_api_base_url |->
        IF e.KANJI_API_BASE_URL # PyNone THEN e.KANJI_API_BASE_URL.s
        ELSE <<"https://", "kanjiapi.dev", "/", "v1">>,
     wanikani_api_base_url |->
        IF e.WANIKANI_API_BASE_URL # PyNone THEN e.WANIKANI_API_BASE_URL.s
        ELSE <<"https://", "api.wanikani.com", "/", "v2", "/">>,
     wanikani_api_revision |->
        IF e.WANIKANI_API_REVISION # PyNone THEN e.WANIKANI_API_REVISION.s
        ELSE <<"20170710">>]

\* A get_env_configs() that never looks at the cache and constructs the
\* configuration on every call.
get_env_configs_uncached(c, e) ==
    [cache |-> AakeedoConfig(e), config |-> AakeedoConfig(e), built |-> 1]

\* get_env_configs(): the cached snapshot, constructed on first access.
\* c is the cache before the call; the result names the cache after it,
\* the value returned and the number of constructions done by this call.
get_env_configs(c, e) ==
    IF c = PyNone
    THEN [cache |-> AakeedoConfig(e), config |-> AakeedoConfig(e), built |-> 1]
    ELSE [cache |-> c, config |-> c, built |-> 0]

\* ------------------------------------------------------------------- httpx
\* httpx joins a client's base_url and a relative path with one slash.
merge_url(base, endpoint) ==
    (IF base # <<>> /\ base[Len(base)] = "/" THEN base ELSE base \o <<"/">>)
        \o (IF endpoint # <<>> /\ Head(endpoint) = "/" THEN Tail(endpoint) ELSE endpoint)

\* An outbound request; headers are a set of <<name, value>> pairs.
Request(url, headers) == [method |-> "GET", url |-> url, headers |-> headers]

NoRequest == [method |-> "none"]

\* Response.is_success, which raise_for_status tests.
is_success(status) == status >= 200 /\ status <= 299

\* A response body that is not JSON text.
Malformed == [t |-> "malformed"]

\* response.json()
json(resp) == IF resp.body = Malformed THEN Raise("JSONDecodeError") ELSE Value(resp.body)

\* Base classes of the exceptions the transport, the status check, the JSON
\* decoder and the model constructors raise.
Bases(exc) ==
    CASE exc = "ConnectError" ->
            {"ConnectError", "TransportError", "RequestError", "HTTPError", "Exception"}
      [] exc = "ReadTimeout" ->
            {"ReadTimeout", "TimeoutException", "TransportError", "RequestError",
             "HTTPError", "Exception"}
      [] exc = "HTTPStatusError" -> {"HTTPStatusError", "HTTPError", "Exception"}
      [] exc = "JSONDecodeError" -> {"JSONDecodeError", "ValueError", "Exception"}
      [] exc = "ValidationError" -> {"ValidationError", "ValueError", "Exception"}
      [] exc = "TypeError" -> {"TypeError", "Exception"}
      [] OTHER -> {exc}

\* What the transport answers to one request: an exception out of
\* client.get, or a response with a status and a body.
TransportRaises(exc) == [k |-> "raise", exc |-> exc, status |-> 0, body |-> Malformed]

Responds(status, body) == [k |-> "response", exc |-> "", status |-> status, body |-> body]

NoResponse == [k |-> "none", exc |-> "", status |-> 0, body |-> Malformed]

Statuses == {200, 404, 500}

TransportFailures == {TransportRaises("ConnectError"), TransportRaises("ReadTimeout")}

\* Every answer the transport may give when the body is drawn from bodies.
Answers(bodies) ==
    TransportFailures \cup {Responds(st, b) : st \in Statuses, b \in bodies \cup {Malformed}}

\* ---------------------------------------------------------- backend bodies
\* The kanji of the detail scenario, U+6C34.
Mizu == <<"U+6C34">>

\* The body of the detail scenario: exactly kanji, stroke_count, meanings.
DetailBodyThreeFields ==
    PyDict([kanji |-> PyStr(Mizu), stroke_count |-> PyInt(4),
            meanings |-> PyList(<<PyStr(<<"water">>)>>)])

\* The same with the codepoint the backend sends for every kanji.
DetailBodyWithUnicode ==
    PyDict([kanji |-> PyStr(Mizu), stroke_count |-> PyInt(4),
            meanings |-> PyList(<<PyStr(<<"water">>)>>),
            unicode |-> PyStr(<<"6c34">>)])

\* A body as the kanji API sends it, every key present.
DetailBodyComplete ==
    PyDict([kanji |-> PyStr(Mizu), grade |-> PyInt(1), stroke_count |-> PyInt(4),
            meanings |-> PyList(<<PyStr(<<"water">>)>>),
            kun_readings |-> PyList(<<PyStr(<<"mizu">>)>>),
            on_readings |-> PyList(<<PyStr(<<"sui">>)>>),
            name_readings |-> PyList(<<>>),
            jlpt |-> PyInt(4), unicode |-> PyStr(<<"6c34">>),
            heisig_en |-> PyStr(<<"water">>), freq_mainichi_shinbun |-> PyInt(223),
            unihan_cjk_compatibility_variant |-> PyNone,
            notes |-> PyList(<<>>)])

\* Well-typed bodies whose values break the data model's constraints.
DetailBodyZeroStrokes ==
    PyDict([kanji |-> PyStr(Mizu), stroke_count |-> PyInt(0),
            meanings |-> PyList(<<PyStr(<<"water">>)>>),
            unicode |-> PyStr(<<"6c34">>)])

DetailBodyNoMeanings ==
    PyDict([kanji |-> PyStr(Mizu \o Mizu), stroke_count |-> PyInt(4),
            meanings |-> PyList(<<>>), unicode |-> PyStr(<<"6c34">>)])

\* An ill-typed field, and a body that is no object.
DetailBodyIllTyped ==
    PyDict([kanji |-> PyStr(Mizu), stroke_count |-> PyStr(<<"four">>),
            meanings |-> PyList(<<PyStr(<<"water">>)>>),
            unicode |-> PyStr(<<"6c34">>)])

ListBodyThree == PyList(<<PyStr(<<"U+4E00">>), PyStr(<<"U+4E8C">>), PyStr(<<"U+4E09">>)>>)

ListBodyEmpty == PyList(<<>>)

ListBodyNonString == PyList(<<PyStr(<<"U+4E00">>), PyInt(2)>>)

ObjectBodyError == PyDict([error |-> PyStr(<<"Not Found">>)])

DetailBodies ==
    {DetailBodyThreeFields, DetailBodyWithUnicode, DetailBodyComplete,
     DetailBodyZeroStrokes, DetailBodyNoMeanings, DetailBodyIllTyped, ListBodyThree}

ListBodies ==
    {ListBodyThree, ListBodyEmpty, ListBodyNonString, ObjectBodyError, PyStr(<<"joyo">>)}

ReadingBodyGood ==
    PyDict([reading |-> PyStr(<<"g">>),
            main_kanji |-> PyList(<<PyStr(Mizu)>>), name_kanji |-> PyList(<<>>)])

ReadingBodyEmptyReading ==
    PyDict([reading |-> PyStr(<<>>),
            main_kanji |-> PyList(<<>>), name_kanji |-> PyList(<<>>)])

ReadingBodyMissingField ==
    PyDict([reading |-> PyStr(<<"g">>), main_kanji |-> PyList(<<PyStr(Mizu)>>)])

ReadingBodies ==
    {ReadingBodyGood, ReadingBodyEmptyReading, ReadingBodyMissingField, ListBodyThree}

WordGood ==
    PyDict([meanings |-> PyList(<<PyDict([glosses |-> PyList(<<PyStr(<<"water">>)>>)])>>),
            variants |-> PyList(<<PyDict([written |-> PyStr(Mizu),
                                          pronounced |-> PyStr(<<"mizu">>),
                                          priorities |-> PyList(<<PyStr(<<"ichi1">>)>>)])>>)])

WordSparse ==
    PyDict([meanings |-> PyList(<<>>),
            variants |-> PyList(<<PyDict([written |-> PyStr(Mizu)])>>)])

WordBad == PyDict([meanings |-> PyList(<<PyDict([glosses |-> PyStr(<<"water">>)])>>)])

WordsBodies ==
    {PyList(<<WordGood>>), PyList(<<WordGood, WordSparse>>), PyList(<<>>),
     PyList(<<WordGood, WordBad>>), PyList(<<PyStr(Mizu)>>), ObjectBodyError}

UserUrl == <<"https://", "api.wanikani.com", "/", "v2", "/", "user">>

UserBody(username, level) ==
    PyDict([object |-> PyStr(<<"user">>), url |-> PyStr(UserUrl),
            data_updated_at |-> PyNone,
            data |-> PyDict([username |-> username, level |-> level,
                             subscription |-> PyDict([active |-> PyStr(<<"yes">>)])])])

UserBodyNoData == PyDict([object |-> PyStr(<<"user">>), url |-> PyStr(UserUrl)])

UserBodyBadUrl ==
    PyDict([object |-> PyStr(<<"user">>), url |-> PyStr(<<"user">>),
            data |-> PyDict([username |-> PyStr(<<"koichi">>), level |-> PyInt(5)])])

UserBodies ==
    {UserBody(PyStr(<<"koichi">>), PyInt(5)), UserBody(PyStr(<<"koichi">>), PyInt(61)),
     UserBody(PyStr(<<>>), PyInt(0)), UserBody(PyNone, PyInt(5)),
     UserBodyNoData, UserBodyBadUrl, ObjectBodyError}

\* ---------------------------------------------------------------- fetchers
\* One line of diagnostics printed by a fetcher.
Printed(fn, event, detail) == [fn |-> fn, event |-> event, detail |-> detail]

\* Except clauses without the final `except Exception`.
except_clauses_no_catch_all(fn, r) ==
    IF r.raised = "" THEN r
    ELSE IF "HTTPStatusError" \in Bases(r.raised) THEN Value(PyNone)
    ELSE IF Bases(r.raised) \cap {"RequestError", "TimeoutException"} # {}
         THEN Value(PyNone)
    ELSE r

\* The except clauses every kanji fetcher ends with: HTTPStatusError, then
\* (RequestError, TimeoutException), then Exception, the last one printing
\* the exception's type, arguments and traceback.  Each returns None.
except_clauses(fn, r) ==
    IF r.raised = "" THEN r
    ELSE IF "HTTPStatusError" \in Bases(r.raised) THEN Value(PyNone)
    ELSE IF Bases(r.raised) \cap {"RequestError", "TimeoutException"} # {}
         THEN Value(PyNone)
    ELSE IF "Exception" \in Bases(r.raised)
         THEN [Value(PyNone) EXCEPT
                  !.logged = {Printed(fn, "Unexpected error", r.raised)}]
    ELSE r

\* A try body that decodes the body without looking at the status first.
get_and_decode_without_status_check(resp) ==
    IF resp.k = "raise" THEN Raise(resp.exc)
    ELSE json(resp)

\* The try body shared by the fetchers up to the decoded body:
\* client.get, raise_for_status, response.json().
get_and_decode(resp) ==
    IF resp.k = "raise" THEN Raise(resp.exc)
    ELSE IF ~is_success(resp.status) THEN Raise("HTTPStatusError")
    ELSE json(resp)

\* A shape test that accepts any list, whatever its elements.
is_list_of_str_any_list(data) == IsList(data)

\* isinstance(data, list) and all(isinstance(item, str) for item in data)
is_list_of_str(data) ==
    IsList(data) /\ \A i \in 1..Len(data.xs) : IsStr(data.xs[i])

\* fetch_kanji_details: the guard that returns None without a request.
fetch_kanji_details_rejects(kanji_char) ==
    ~IsStr(kanji_char) \/ Len(kanji_char.s) # 1

fetch_kanji_details_request(kanji_char, config) ==
    Request(merge_url(config.kanji_api_base_url, <<"/", "kanji", "/">> \o kanji_char.s), {})

\* The try block of fetch_kanji_details once the transport has answered.
fetch_kanji_details_try(resp) ==
    LET data == get_and_decode(resp)
    IN  IF data.raised # "" THEN data ELSE KanjiDetailModel(data.value)

\* fetch_kanji_details from the answer to its return.
fetch_kanji_details(resp) ==
    except_clauses("fetch_kanji_details", fetch_kanji_details_try(resp))

fetch_joyo_kanji_list_request(config) ==
    Request(merge_url(config.kanji_api_base_url, <<"/", "kanji", "/", "joyo">>), {})

\* A try block of fetch_joyo_kanji_list that accepts every JSON array
\* without looking at its elements.
fetch_joyo_kanji_list_try_any_list(resp) ==
    LET data == get_and_decode(resp)
    IN  IF data.raised # "" THEN data
        ELSE IF data.value.t = "list" THEN data
        ELSE [Value(PyNone) EXCEPT
                 !.logged = {Printed("fetch_joyo_kanji_list",
                                     "Unexpected data format", data.value.t)}]

fetch_joyo_kanji_list_try(resp) ==
    LET data == get_and_decode(resp)
    IN  IF data.raised # "" THEN data
        ELSE IF is_list_of_str(data.value) THEN data
        ELSE [Value(PyNone) EXCEPT
                 !.logged = {Printed("fetch_joyo_kanji_list",
                                     "Unexpected data format", data.value.t)}]

fetch_joyo_kanji_list(resp) ==
    except_clauses("fetch_joyo_kanji_list", fetch_joyo_kanji_list_try(resp))

fetch_kanji_list_rejects(list_name) == ~Truthy(list_name)

fetch_kanji_list_request(list_name, config) ==
    Request(merge_url(config.kanji_api_base_url, <<"/", "kanji", "/">> \o list_name.s), {})

fetch_kanji_list_try(resp) ==
    LET data == get_and_decode(resp)
    IN  IF data.raised # "" THEN data
        ELSE IF is_list_of_str(data.value) THEN data
        ELSE [Value(PyNone) EXCEPT
                 !.logged = {Printed("fetch_kanji_list",
                                     "Unexpected data format", data.value.t)}]

fetch_kanji_list(resp) ==
    except_clauses("fetch_kanji_list", fetch_kanji_list_try(resp))

fetch_kanji_by_reading_rejects(reading_value) == ~Truthy(reading_value)

fetch_kanji_by_reading_request(reading_value, config) ==
    Request(merge_url(config.kanji_api_base_url, <<"/", "reading", "/">> \o reading_value.s),
            {})

fetch_kanji_by_reading_try(resp) ==
    LET data == get_and_decode(resp)
    IN  IF data.raised # "" THEN data ELSE KanjiReading(data.value)

fetch_kanji_by_reading(resp) ==
    except_clauses("fetch_kanji_by_reading", fetch_kanji_by_reading_try(resp))

\* A guard that tests the type only and lets a string of any length through.
fetch_words_for_kanji_rejects_only_non_str(kanji_char) == ~IsStr(kanji_char)

fetch_words_for_kanji_rejects(kanji_char) ==
    ~IsStr(kanji_char) \/ Len(kanji_char.s) # 1

fetch_words_for_kanji_request(kanji_char, config) ==
    Request(merge_url(config.kanji_api_base_url, <<"/", "words", "/">> \o kanji_char.s), {})

\* A comprehension that skips the elements that fail to parse and keeps
\* the well-formed ones.
word_entries_skipping_malformed(items) ==
    LET made == [i \in 1..Len(items) |-> WordEntry(items[i])]
        kept == SelectSeq(made, LAMBDA m : m.raised = "")
    IN  Value(PyList([i \in 1..Len(kept) |-> kept[i].value]))

\* [WordEntry(**item) for item in response_data]: the first element that
\* fails raises out of the comprehension.
word_entries(items) ==
    LET made == [i \in 1..Len(items) |-> WordEntry(items[i])]
        bad  == {i \in 1..Len(items) : made[i].raised # ""}
    IN  IF bad = {}
        THEN Value(PyList([i \in 1..Len(items) |-> made[i].value]))
        ELSE made[CHOOSE i \in bad : \A j \in bad : i <= j]

fetch_words_for_kanji_try(resp) ==
    LET data == get_and_decode(resp)
    IN  IF data.raised # "" THEN data
        ELSE IF IsList(data.value) THEN word_entries(data.value.xs)
        ELSE [Value(PyNone) EXCEPT
                 !.logged = {Printed("fetch_words_for_kanji",
                                     "Unexpected data format", data.value.t)}]

fetch_words_for_kanji(resp) ==
    except_clauses("fetch_words_for_kanji", fetch_words_for_kanji_try(resp))

fetch_wanikani_user_info_rejects(api_token) == ~Truthy(api_token)

\* A profile request whose URL is the configured base followed by "/user"
\* without trimming the base first.
fetch_wanikani_user_info_request_untrimmed(api_token, config) ==
    Request(config.wanikani_api_base_url \o <<"/">> \o <<"user">>,
            {<<"Authorization", <<"Bearer ">> \o api_token.s>>,
             <<"Wanikani-Revision", config.wanikani_api_revision>>})

fetch_wanikani_user_info_request(api_token, config) ==
    Request(rstrip_slash(config.wanikani_api_base_url) \o <<"/">> \o <<"user">>,
            {<<"Authorization", <<"Bearer ">> \o api_token.s>>,
             <<"Wanikani-Revision", config.wanikani_api_revision>>})

\* Except clauses without the final `except Exception`.
wanikani_except_clauses_no_catch_all(r) ==
    IF r.raised = "" THEN r
    ELSE IF "HTTPStatusError" \in Bases(r.raised)
         THEN [Value(PyNone) EXCEPT
                  !.logged = {Printed("fetch_wanikani_user_info", "HTTPStatusError",
                                      "status code and response body")}]
    ELSE IF Bases(r.raised) \cap {"RequestError", "TimeoutException"} # {}
         THEN [Value(PyNone) EXCEPT
                  !.logged = {Printed("fetch_wanikani_user_info",
                                      "RequestError/TimeoutException", r.raised)}]
    ELSE r

\* The except clauses of fetch_wanikani_user_info: each prints and returns None.
wanikani_except_clauses(r) ==
    IF r.raised = "" THEN r
    ELSE IF "HTTPStatusError" \in Bases(r.raised)
         THEN [Value(PyNone) EXCEPT
                  !.logged = {Printed("fetch_wanikani_user_info", "HTTPStatusError",
                                      "status code and response body")}]
    ELSE IF Bases(r.raised) \cap {"RequestError", "TimeoutException"} # {}
         THEN [Value(PyNone) EXCEPT
                  !.logged = {Printed("fetch_wanikani_user_info",
                                      "RequestError/TimeoutException", r.raised)}]
    ELSE IF "Exception" \in Bases(r.raised)
         THEN [Value(PyNone) EXCEPT
                  !.logged = {Printed("fetch_wanikani_user_info",
                                      "Unexpected error", r.raised)}]
    ELSE r

fetch_wanikani_user_info_try(resp) ==
    LET data  == get_and_decode(resp)
        model == IF data.raised # "" THEN data ELSE UserResponse(data.value)
    IN  IF model.raised # "" THEN model ELSE Value(model.value.f.data)

fetch_wanikani_user_info(resp) ==
    wanikani_except_clauses(fetch_wanikani_user_info_try(resp))

\* ------------------------------------------------------------ tool errors
\* arcade.sdk.errors.RetryableToolError(message, developer_message=...,
\* additional_prompt_content=...)
RetryableToolError(message, developer_message, additional_prompt_content) ==
    [cls |-> "RetryableToolError", message |-> PyStr(message),
     developer_message |-> PyStr(developer_message),
     additional_prompt_content |-> PyStr(additional_prompt_content)]

\* arcade.sdk.errors.ToolExecutionError(message)
ToolExecutionError(message) ==
    [cls |-> "ToolExecutionError", message |-> PyStr(message),
     developer_message |-> PyNone, additional_prompt_content |-> PyNone]

\* An exception of another class leaving a function that does not catch it.
Uncaught(exc) ==
    [cls |-> exc, message |-> PyNone,
     developer_message |-> PyNone, additional_prompt_content |-> PyNone]

\* How a tool invocation ends.
Pending == [k |-> "pending"]

Returns(v) == [k |-> "returned", value |-> v]

Raises(e) == [k |-> "raised", error |-> e]

\* A validation that tests the argument as given, without trimming it.
stripped_not_at_all(v) == IF IsStr(v) THEN v ELSE PyStr(<<>>)

\* A trim that removes leading whitespace only.
stripped_leading_only(v) == IF IsStr(v) THEN PyStr(lstrip(v.s)) ELSE PyStr(<<>>)

\* ------------------------------------------------------------------- tools
\* The literal parts of the messages are written in pieces, so that the name
\* of the tool, the name of the argument and the request to ask the user are
\* symbols of their own.
\* kanji_char.strip() if isinstance(kanji_char, str) else ""
stripped(v) == IF IsStr(v) THEN PyStr(strip(v.s)) ELSE PyStr(<<>>)

\* A normalization that trims but keeps the letter case.
stripped_lower_keeps_case(v) == IF IsStr(v) THEN PyStr(strip(v.s)) ELSE PyStr(<<>>)

\* list_name.strip().lower() if isinstance(list_name, str) else ""
stripped_lower(v) == IF IsStr(v) THEN PyStr(lower(strip(v.s))) ELSE PyStr(<<>>)

\* A validation that forgets the length test and only rejects the empty string.
not_single_char_only_empty(cleaned) == ~Truthy(cleaned)

\* not cleaned_kanji_char or len(cleaned_kanji_char) != 1
not_single_char(cleaned) == ~Truthy(cleaned) \/ Len(cleaned.s) # 1

get_kanji_details_input_error(kanji_char, cleaned) ==
    RetryableToolError(
        <<"Please provide a single, valid Japanese kanji character. The input '">>
            \o Format(kanji_char) \o <<"' is not suitable.">>,
        <<"Invalid input for ", "get_kanji_details", ": ", "kanji_char",
          " must be a single non-whitespace string character. ", "Received: '">>
            \o Format(kanji_char) \o <<"', Cleaned: '">> \o Format(cleaned) \o <<"'">>,
        <<"The provided input for the kanji character was invalid. ", "Please ask the user",
          " for a single, specific kanji character.">>)

\* A result step whose error message also carries what the fetcher printed
\* about the failure.
get_kanji_details_result_with_cause(cleaned, fetched) ==
    IF fetched.raised # "" THEN Raises(Uncaught(fetched.raised))
    ELSE IF Truthy(fetched.value)
         THEN Returns(json_dumps(model_dump_exclude_none(fetched.value)))
    ELSE Raises(ToolExecutionError(
            <<"I couldn't find detailed information for the kanji '">>
                \o Format(cleaned)
                \o <<"'. Please ensure it's a recognized Japanese kanji character.">>
                \o (IF fetched.logged = {} THEN <<>>
                    ELSE <<(CHOOSE l \in fetched.logged : TRUE).detail>>)))

\* get_kanji_details after the fetcher has returned (or raised).
get_kanji_details_result(cleaned, fetched) ==
    IF fetched.raised # "" THEN Raises(Uncaught(fetched.raised))
    ELSE IF Truthy(fetched.value)
         THEN Returns(json_dumps(model_dump_exclude_none(fetched.value)))
    ELSE Raises(ToolExecutionError(
            <<"I couldn't find detailed information for the kanji '">>
                \o Format(cleaned)
                \o <<"'. Please ensure it's a recognized Japanese kanji character.">>))

\* A result step that serializes whatever the fetcher returned, None included.
list_joyo_kanji_result_unchecked(fetched) ==
    IF fetched.raised # "" THEN Raises(Uncaught(fetched.raised))
    ELSE Returns(json_dumps(fetched.value))

list_joyo_kanji_result(fetched) ==
    IF fetched.raised # "" THEN Raises(Uncaught(fetched.raised))
    ELSE IF fetched.value # PyNone THEN Returns(json_dumps(fetched.value))
    ELSE Raises(ToolExecutionError(
            <<"Sorry, I was unable to retrieve the list of Joyo kanji at this time. There might have been an issue communicating with the Kanji API.">>))

get_kanji_list_by_category_input_error(list_name) ==
    RetryableToolError(
        <<"Please provide a valid category name for the kanji list. The input '">>
            \o Format(list_name) \o <<"' is empty or invalid.">>,
        <<"Invalid input for ", "get_kanji_list_by_category", ": ", "list_name",
          " cannot be empty. ", "Received: '">>
            \o Format(list_name) \o <<"'">>,
        <<"A category name for the kanji list was not provided or was invalid. ",
          "Please ask the user",
          " for a specific category (e.g., 'joyo', 'grade-1', 'jlpt-n3').">>)

get_kanji_list_by_category_result(cleaned, fetched) ==
    IF fetched.raised # "" THEN Raises(Uncaught(fetched.raised))
    ELSE IF fetched.value # PyNone THEN Returns(json_dumps(fetched.value))
    ELSE Raises(ToolExecutionError(
            <<"I couldn't retrieve the kanji list for the category '">>
                \o Format(cleaned)
                \o <<"'. Please ensure it's a recognized category name (like 'joyo', 'grade-1', 'jlpt-n3').">>))

\* An input error whose developer message reports the trimmed value instead
\* of the value received.
get_kanji_by_reading_input_error_reports_cleaned(reading_value) ==
    RetryableToolError(
        <<"Please provide a Japanese reading (in hiragana or katakana) to search for. The input '">>
            \o Format(reading_value) \o <<"' is empty or invalid.">>,
        <<"Invalid input for ", "get_kanji_by_reading", ": ", "reading_value",
          " cannot be empty. ", "Received: '">>
            \o Format(stripped(reading_value)) \o <<"'">>,
        <<"A Japanese reading was not provided or was invalid. ", "Please ask the user",
          " for a specific reading in kana.">>)

get_kanji_by_reading_input_error(reading_value) ==
    RetryableToolError(
        <<"Please provide a Japanese reading (in hiragana or katakana) to search for. The input '">>
            \o Format(reading_value) \o <<"' is empty or invalid.">>,
        <<"Invalid input for ", "get_kanji_by_reading", ": ", "reading_value",
          " cannot be empty. ", "Received: '">>
            \o Format(reading_value) \o <<"'">>,
        <<"A Japanese reading was not provided or was invalid. ", "Please ask the user",
          " for a specific reading in kana.">>)

get_kanji_by_reading_result(cleaned, fetched) ==
    IF fetched.raised # "" THEN Raises(Uncaught(fetched.raised))
    ELSE IF Truthy(fetched.value)
         THEN Returns(json_dumps(model_dump_exclude_none(fetched.value)))
    ELSE Raises(ToolExecutionError(
            <<"I couldn't find any kanji associated with the reading '">>
                \o Format(cleaned)
                \o <<"'. Please check the reading or try a different one.">>))

get_words_for_kanji_input_error(kanji_char, cleaned) ==
    RetryableToolError(
        <<"Please provide a single, valid Japanese kanji character to find words for. Input '">>
            \o Format(kanji_char) \o <<"' is not suitable.">>,
        <<"Invalid input for ", "get_words_for_kanji", ": ", "kanji_char",
          " must be a single non-whitespace string character. ", "Received: '">>
            \o Format(kanji_char) \o <<"', Cleaned: '">> \o Format(cleaned) \o <<"'">>,
        <<"The provided input for the kanji character was invalid. ", "Please ask the user",
          " for a single, specific kanji character to search words for.">>)

\* A result step that tests the list for truthiness, so that an empty list
\* counts as no result.
get_words_for_kanji_result_truthiness(cleaned, fetched) ==
    IF fetched.raised # "" THEN Raises(Uncaught(fetched.raised))
    ELSE IF Truthy(fetched.value)
         THEN Returns(json_dumps(model_dump_exclude_none(fetched.value)))
    ELSE Raises(ToolExecutionError(
            <<"I couldn't retrieve words for the kanji '">>
                \o Format(cleaned)
                \o <<"'. This might mean no words are listed for this kanji, or there was an issue fetching the data.">>))

get_words_for_kanji_result(cleaned, fetched) ==
    IF fetched.raised # "" THEN Raises(Uncaught(fetched.raised))
    ELSE IF fetched.value # PyNone
         THEN Returns(json_dumps(model_dump_exclude_none(fetched.value)))
    ELSE Raises(ToolExecutionError(
            <<"I couldn't retrieve words for the kanji '">>
                \o Format(cleaned)
                \o <<"'. This might mean no words are listed for this kanji, or there was an issue fetching the data.">>))

\* The string get_user_information returns when the secret is missing or empty.
NoTokenMessage ==
    PyStr(<<"No WaniKani API token provided, so no user information can be fetched.">>)

\* The string it returns when the fetcher yields no result.
NoUserDataMessage ==
    PyStr(<<"Could not retrieve WaniKani user information due to an API error, invalid data, or token issue.">>)

\* A token test that takes only an absent secret for missing (`is None`).
token_missing_only_none(api_token) == api_token = PyNone

\* not api_token
token_missing(api_token) == ~Truthy(api_token)

get_user_information_result(fetched) ==
    IF fetched.raised # "" THEN Raises(Uncaught(fetched.raised))
    ELSE IF Truthy(fetched.value) THEN Returns(model_dump_json(fetched.value))
    ELSE Returns(NoUserDataMessage)

\* ------------------------------------------------------------------- state
VARIABLES
    inv,            \* per invocation slot: the frame of the tool call in it
    cached_config,  \* aakeedo_config._cached_config
    config_built,   \* how many times AakeedoConfig() has been constructed
    env             \* the process environment the configuration is read from

vars == <<inv, cached_config, config_built, env>>

Procs == 1..NProcs

\* Secrets the host framework may bind for the profile tool.
Tokens == {PyNone, PyStr(<<>>), PyStr(<<"valid-token">>), PyStr(<<"revoked-token">>)}

\* A slot with no invocation in it.
Idle ==
    [pc |-> "idle", tool |-> "none", input |-> PyNone, arg |-> PyNone,
     fetch_calls |-> 0, fetch_returns |-> 0, http_requests |-> 0, clients |-> 0,
     config |-> PyNone, request |-> NoRequest, response |-> NoResponse, exc |-> "",
     fetched |-> Value(PyNone), outcome |-> Pending, logged |-> {}]

\* The tool raises its input error before any fetcher call.
Rejected(tool, input, error) ==
    [Idle EXCEPT !.pc = "done", !.tool = tool, !.input = input,
                 !.outcome = Raises(error)]

\* The tool calls its fetcher with arg and the fetcher's guard returns None
\* at once: the tool goes on to its result without any request.
FetcherRefused(tool, input, arg, outcome) ==
    [Idle EXCEPT !.pc = "done", !.tool = tool, !.input = input, !.arg = arg,
                 !.fetch_calls = 1, !.fetch_returns = 1, !.outcome = outcome]

\* The tool calls its fetcher with arg; the fetcher takes config from
\* get_env_configs(), opens its client and suspends in client.get(request).
Suspended(tool, input, arg, request, config) ==
    [Idle EXCEPT !.pc = "awaiting", !.tool = tool, !.input = input, !.arg = arg,
                 !.fetch_calls = 1, !.http_requests = 1, !.clients = 1,
                 !.config = config, !.request = request]

\* A resume that, when the try block raised, issues the request once more
\* and stays suspended instead of giving up.
Resumed_retrying(frame, resp, tried, fetched, outcome) ==
    IF tried.raised # "" /\ frame.http_requests < 2
    THEN [frame EXCEPT !.http_requests = @ + 1]
    ELSE [frame EXCEPT !.pc = "done", !.response = resp, !.exc = tried.raised,
                       !.fetched = fetched, !.fetch_returns = 1, !.clients = @ - 1,
                       !.outcome = outcome, !.logged = fetched.logged]

\* A resume that closes the client only when the try block ended without an
\* exception.
Resumed_leaking_on_error(frame, resp, tried, fetched, outcome) ==
    [frame EXCEPT !.pc = "done", !.response = resp, !.exc = tried.raised,
                  !.fetched = fetched, !.fetch_returns = 1,
                  !.clients = IF tried.raised = "" THEN @ - 1 ELSE @,
                  !.outcome = outcome, !.logged = fetched.logged]

\* A resume that keeps one result per tool in a module-level memo: when
\* another invocation of the same tool has already ended, its outcome is
\* handed out again instead of the outcome of this call.
Resumed_sharing_last_outcome(frame, resp, tried, fetched, outcome) ==
    LET earlier == {q \in Procs : inv[q].pc = "done" /\ inv[q].tool = frame.tool}
    IN  [frame EXCEPT !.pc = "done", !.response = resp, !.exc = tried.raised,
                      !.fetched = fetched, !.fetch_returns = 1, !.clients = @ - 1,
                      !.outcome = IF earlier = {} THEN outcome
                                  ELSE inv[CHOOSE q \in earlier : TRUE].outcome,
                      !.logged = fetched.logged]

\* A resume that never hands control back to the tool when the try block
\* raised: the invocation stays where it is for good.
Resumed_hanging_on_error(frame, resp, tried, fetched, outcome) ==
    IF tried.raised # ""
    THEN [frame EXCEPT !.pc = "hung", !.response = resp, !.exc = tried.raised]
    ELSE [frame EXCEPT !.pc = "done", !.response = resp, !.exc = tried.raised,
                       !.fetched = fetched, !.fetch_returns = 1, !.clients = @ - 1,
                       !.outcome = outcome, !.logged = fetched.logged]

\* The transport has answered: the try block ends as tried (exc keeps the
\* exception it raised, "" when none), the fetcher leaves its `async with`
\* block (releasing the client) with fetched, and the tool ends with outcome.
Resumed(frame, resp, tried, fetched, outcome) ==
    [frame EXCEPT !.pc = "done", !.response = resp, !.exc = tried.raised,
                  !.fetched = fetched, !.fetch_returns = 1, !.clients = @ - 1,
                  !.outcome = outcome, !.logged = fetched.logged]

Init ==
    /\ inv = [p \in Procs |-> Idle]
    /\ cached_config = PyNone
    /\ config_built = 0
    /\ env \in Envs

\* The fetcher reads the configuration through get_env_configs().
ReadConfig(call) ==
    /\ cached_config' = call.cache
    /\ config_built' = config_built + call.built
    /\ UNCHANGED env

NoConfigRead == UNCHANGED <<cached_config, config_built, env>>

get_kanji_details(p, kanji_char) ==
    /\ inv[p].pc = "idle"
    /\ LET cleaned == stripped(kanji_char)
           call    == get_env_configs(cached_config, env)
       IN  IF not_single_char(cleaned)
           THEN /\ inv' = [inv EXCEPT ![p] =
                              Rejected("get_kanji_details", kanji_char,
                                       get_kanji_details_input_error(kanji_char, cleaned))]
                /\ NoConfigRead
           ELSE IF fetch_kanji_details_rejects(cleaned)
           THEN /\ inv' = [inv EXCEPT ![p] =
                              FetcherRefused("get_kanji_details", kanji_char, cleaned,
                                  get_kanji_details_result(cleaned, Value(PyNone)))]
                /\ NoConfigRead
           ELSE /\ inv' = [inv EXCEPT ![p] =
                              Suspended("get_kanji_details", kanji_char, cleaned,
                                  fetch_kanji_details_request(cleaned, call.config),
                                  call.config)]
                /\ ReadConfig(call)

get_kanji_details_resume(p, resp) ==
    /\ inv[p].pc = "awaiting"
    /\ inv[p].tool = "get_kanji_details"
    /\ LET fetched == fetch_kanji_details(resp)
       IN  inv' = [inv EXCEPT ![p] =
                      Resumed(inv[p], resp, fetch_kanji_details_try(resp), fetched,
                              get_kanji_details_result(inv[p].arg, fetched))]
    /\ NoConfigRead

list_joyo_kanji(p) ==
    /\ inv[p].pc = "idle"
    /\ LET call == get_env_configs(cached_config, env)
       IN  /\ inv' = [inv EXCEPT ![p] =
                         Suspended("list_joyo_kanji", PyNone, PyNone,
                                   fetch_joyo_kanji_list_request(call.config),
                                  call.config)]
           /\ ReadConfig(call)

list_joyo_kanji_resume(p, resp) ==
    /\ inv[p].pc = "awaiting"
    /\ inv[p].tool = "list_joyo_kanji"
    /\ LET fetched == fetch_joyo_kanji_list(resp)
       IN  inv' = [inv EXCEPT ![p] =
                      Resumed(inv[p], resp, fetch_joyo_kanji_list_try(resp), fetched, list_joyo_kanji_result(fetched))]
    /\ NoConfigRead

get_kanji_list_by_category(p, list_name) ==
    /\ inv[p].pc = "idle"
    /\ LET cleaned == stripped_lower(list_name)
           call    == get_env_configs(cached_config, env)
       IN  IF ~Truthy(cleaned)
           THEN /\ inv' = [inv EXCEPT ![p] =
                              Rejected("get_kanji_list_by_category", list_name,
                                       get_kanji_list_by_category_input_error(list_name))]
                /\ NoConfigRead
           ELSE IF fetch_kanji_list_rejects(cleaned)
           THEN /\ inv' = [inv EXCEPT ![p] =
                              FetcherRefused("get_kanji_list_by_category", list_name, cleaned,
                                  get_kanji_list_by_category_result(cleaned, Value(PyNone)))]
                /\ NoConfigRead
           ELSE /\ inv' = [inv EXCEPT ![p] =
                              Suspended("get_kanji_list_by_category", list_name, cleaned,
                                  fetch_kanji_list_request(cleaned, call.config),
                                  call.config)]
                /\ ReadConfig(call)

get_kanji_list_by_category_resume(p, resp) ==
    /\ inv[p].pc = "awaiting"
    /\ inv[p].tool = "get_kanji_list_by_category"
    /\ LET fetched == fetch_kanji_list(resp)
       IN  inv' = [inv EXCEPT ![p] =
                      Resumed(inv[p], resp, fetch_kanji_list_try(resp), fetched,
                              get_kanji_list_by_category_result(inv[p].arg, fetched))]
    /\ NoConfigRead

get_kanji_by_reading(p, reading_value) ==
    /\ inv[p].pc = "idle"
    /\ LET cleaned == stripped(reading_value)
           call    == get_env_configs(cached_config, env)
       IN  IF ~Truthy(cleaned)
           THEN /\ inv' = [inv EXCEPT ![p] =
                              Rejected("get_kanji_by_reading", reading_value,
                                       get_kanji_by_reading_input_error(reading_value))]
                /\ NoConfigRead
           ELSE IF fetch_kanji_by_reading_rejects(cleaned)
           THEN /\ inv' = [inv EXCEPT ![p] =
                              FetcherRefused("get_kanji_by_reading", reading_value, cleaned,
                                  get_kanji_by_reading_result(cleaned, Value(PyNone)))]
                /\ NoConfigRead
           ELSE /\ inv' = [inv EXCEPT ![p] =
                              Suspended("get_kanji_by_reading", reading_value, cleaned,
                                  fetch_kanji_by_reading_request(cleaned, call.config),
                                  call.config)]
                /\ ReadConfig(call)

get_kanji_by_reading_resume(p, resp) ==
    /\ inv[p].pc = "awaiting"
    /\ inv[p].tool = "get_kanji_by_reading"
    /\ LET fetched == fetch_kanji_by_reading(resp)
       IN  inv' = [inv EXCEPT ![p] =
                      Resumed(inv[p], resp, fetch_kanji_by_reading_try(resp), fetched,
                              get_kanji_by_reading_result(inv[p].arg, fetched))]
    /\ NoConfigRead

get_words_for_kanji(p, kanji_char) ==
    /\ inv[p].pc = "idle"
    /\ LET cleaned == stripped(kanji_char)
           call    == get_env_configs(cached_config, env)
       IN  IF not_single_char(cleaned)
           THEN /\ inv' = [inv EXCEPT ![p] =
                              Rejected("get_words_for_kanji", kanji_char,
                                       get_words_for_kanji_input_error(kanji_char, cleaned))]
                /\ NoConfigRead
           ELSE IF fetch_words_for_kanji_rejects(cleaned)
           THEN /\ inv' = [inv EXCEPT ![p] =
                              FetcherRefused("get_words_for_kanji", kanji_char, cleaned,
                                  get_words_for_kanji_result(cleaned, Value(PyNone)))]
                /\ NoConfigRead
           ELSE /\ inv' = [inv EXCEPT ![p] =
                              Suspended("get_words_for_kanji", kanji_char, cleaned,
                                  fetch_words_for_kanji_request(cleaned, call.config),
                                  call.config)]
                /\ ReadConfig(call)

get_words_for_kanji_resume(p, resp) ==
    /\ inv[p].pc = "awaiting"
    /\ inv[p].tool = "get_words_for_kanji"
    /\ LET fetched == fetch_words_for_kanji(resp)
       IN  inv' = [inv EXCEPT ![p] =
                      Resumed(inv[p], resp, fetch_words_for_kanji_try(resp), fetched,
                              get_words_for_kanji_result(inv[p].arg, fetched))]
    /\ NoConfigRead

get_user_information(p, api_token) ==
    /\ inv[p].pc = "idle"
    /\ LET call == get_env_configs(cached_config, env)
       IN  IF token_missing(api_token)
           THEN /\ inv' = [inv EXCEPT ![p] =
                              [Idle EXCEPT !.pc = "done", !.tool = "get_user_information",
                                           !.input = api_token,
                                           !.outcome = Returns(NoTokenMessage)]]
                /\ NoConfigRead
           ELSE IF fetch_wanikani_user_info_rejects(api_token)
           THEN /\ inv' = [inv EXCEPT ![p] =
                              FetcherRefused("get_user_information", api_token, api_token,
                                  get_user_information_result(Value(PyNone)))]
                /\ NoConfigRead
           ELSE /\ inv' = [inv EXCEPT ![p] =
                              Suspended("get_user_information", api_token, api_token,
                                  fetch_wanikani_user_info_request(api_token, call.config),
                                  call.config)]
                /\ ReadConfig(call)

get_user_information_resume(p, resp) ==
    /\ inv[p].pc = "awaiting"
    /\ inv[p].tool = "get_user_information"
    /\ LET fetched == fetch_wanikani_user_info(resp)
       IN  inv' = [inv EXCEPT ![p] =
                      Resumed(inv[p], resp, fetch_wanikani_user_info_try(resp), fetched, get_user_information_result(fetched))]
    /\ NoConfigRead

\* The caller has taken the outcome; the slot is free for the next invocation.
Return(p) ==
    /\ inv[p].pc = "done"
    /\ inv' = [inv EXCEPT ![p] = Idle]
    /\ NoConfigRead

\* One caller invoking the tools one after another, with every input of at
\* most MaxLen characters and every answer of the transport.
Next ==
    \/ \E s \in InputsUpTo(MaxLen) : get_kanji_details(1, s)
    \/ \E r \in Answers(DetailBodies) : get_kanji_details_resume(1, r)
    \/ list_joyo_kanji(1)
    \/ \E r \in Answers(ListBodies) : list_joyo_kanji_resume(1, r)
    \/ \E s \in InputsUpTo(MaxLen) : get_kanji_list_by_category(1, s)
    \/ \E r \in Answers(ListBodies) : get_kanji_list_by_category_resume(1, r)
    \/ \E s \in InputsUpTo(MaxLen) : get_kanji_by_reading(1, s)
    \/ \E r \in Answers(ReadingBodies) : get_kanji_by_reading_resume(1, r)
    \/ \E s \in InputsUpTo(MaxLen) : get_words_for_kanji(1, s)
    \/ \E r \in Answers(WordsBodies) : get_words_for_kanji_resume(1, r)
    \/ \E tok \in Tokens : get_user_information(1, tok)
    \/ \E r \in Answers(UserBodies) : get_user_information_resume(1, r)
    \/ Return(1)

Spec == Init /\ [][Next]_vars

\* Concurrent invocations: every slot may start any tool at any time and the
\* transport may answer the requests in flight in any order.  Each argument
\* is None or a string that needs trimming and case folding; each request
\* may fail for every cause or succeed.
ConcInputs == {PyNone, PyStr(<<" ", "G">>)}

ConcTokens == {PyNone, PyStr(<<"valid-token">>)}

ConcAnswers(good) ==
    TransportFailures
        \cup {Responds(404, ObjectBodyError), Responds(200, Malformed),
              Responds(200, ObjectBodyError), Responds(200, good)}

NextConc ==
    \E p \in Procs :
        \/ \E s \in ConcInputs : get_kanji_details(p, s)
        \/ \E r \in ConcAnswers(DetailBodyComplete) : get_kanji_details_resume(p, r)
        \/ list_joyo_kanji(p)
        \/ \E r \in ConcAnswers(ListBodyThree) : list_joyo_kanji_resume(p, r)
        \/ \E s \in ConcInputs : get_kanji_list_by_category(p, s)
        \/ \E r \in ConcAnswers(ListBodyThree) : get_kanji_list_by_category_resume(p, r)
        \/ \E s \in ConcInputs : get_kanji_by_reading(p, s)
        \/ \E r \in ConcAnswers(ReadingBodyGood) : get_kanji_by_reading_resume(p, r)
        \/ \E s \in ConcInputs : get_words_for_kanji(p, s)
        \/ \E r \in ConcAnswers(PyList(<<WordGood>>)) : get_words_for_kanji_resume(p, r)
        \/ \E tok \in ConcTokens : get_user_information(p, tok)
        \/ \E r \in ConcAnswers(UserBody(PyStr(<<"koichi">>), PyInt(5))) :
              get_user_information_resume(p, r)
        \/ Return(p)

SpecConc == Init /\ [][NextConc]_vars

\* ------------------------------------------------------ answering transport
\* The transport ends every request in flight: client.get returns a
\* response or raises a transport error or a timeout (httpx applies its
\* default timeout to every request of an AsyncClient built without one).
\* The steps below are the ones such an answer drives; they are taken
\* eventually once a request is in flight.
TransportAnswers ==
    \/ \E r \in Answers(DetailBodies) : get_kanji_details_resume(1, r)
    \/ \E r \in Answers(ListBodies) : list_joyo_kanji_resume(1, r)
    \/ \E r \in Answers(ListBodies) : get_kanji_list_by_category_resume(1, r)
    \/ \E r \in Answers(ReadingBodies) : get_kanji_by_reading_resume(1, r)
    \/ \E r \in Answers(WordsBodies) : get_words_for_kanji_resume(1, r)
    \/ \E r \in Answers(UserBodies) : get_user_information_resume(1, r)

SpecLive == Init /\ [][Next]_vars /\ WF_vars(TransportAnswers)

\* ------------------------------------------------- fetchers called directly
\* The fetchers are module-level coroutines and are also awaited on their
\* own (tests/test_kanji_api_http_client.py), with no tool validating the
\* argument first.  What such a call hands to its caller:
FetcherOutcome(fetched) ==
    IF fetched.raised # "" THEN Raises(Uncaught(fetched.raised))
    ELSE Returns(fetched.value)

\* The guard of fetcher fn returned None at once.
GuardReturned(fn, input) ==
    [Idle EXCEPT !.pc = "done", !.tool = fn, !.input = input, !.arg = input,
                 !.fetch_calls = 1, !.fetch_returns = 1, !.outcome = Returns(PyNone)]

await_fetch_kanji_details(p, kanji_char) ==
    /\ inv[p].pc = "idle"
    /\ LET call == get_env_configs(cached_config, env)
       IN  IF fetch_kanji_details_rejects(kanji_char)
           THEN /\ inv' = [inv EXCEPT ![p] = GuardReturned("fetch_kanji_details", kanji_char)]
                /\ NoConfigRead
           ELSE /\ inv' = [inv EXCEPT ![p] =
                              Suspended("fetch_kanji_details", kanji_char, kanji_char,
                                  fetch_kanji_details_request(kanji_char, call.config),
                                  call.config)]
                /\ ReadConfig(call)

await_fetch_kanji_details_resume(p, resp) ==
    /\ inv[p].pc = "awaiting"
    /\ inv[p].tool = "fetch_kanji_details"
    /\ LET fetched == fetch_kanji_details(resp)
       IN  inv' = [inv EXCEPT ![p] =
                      Resumed(inv[p], resp, fetch_kanji_details_try(resp), fetched,
                              FetcherOutcome(fetched))]
    /\ NoConfigRead

await_fetch_joyo_kanji_list(p) ==
    /\ inv[p].pc = "idle"
    /\ LET call == get_env_configs(cached_config, env)
       IN  /\ inv' = [inv EXCEPT ![p] =
                         Suspended("fetch_joyo_kanji_list", PyNone, PyNone,
                                   fetch_joyo_kanji_list_request(call.config),
                                   call.config)]
           /\ ReadConfig(call)

await_fetch_joyo_kanji_list_resume(p, resp) ==
    /\ inv[p].pc = "awaiting"
    /\ inv[p].tool = "fetch_joyo_kanji_list"
    /\ LET fetched == fetch_joyo_kanji_list(resp)
       IN  inv' = [inv EXCEPT ![p] =
                      Resumed(inv[p], resp, fetch_joyo_kanji_list_try(resp), fetched,
                              FetcherOutcome(fetched))]
    /\ NoConfigRead

await_fetch_kanji_list(p, list_name) ==
    /\ inv[p].pc = "idle"
    /\ LET call == get_env_configs(cached_config, env)
       IN  IF fetch_kanji_list_rejects(list_name)
           THEN /\ inv' = [inv EXCEPT ![p] = GuardReturned("fetch_kanji_list", list_name)]
                /\ NoConfigRead
           ELSE /\ inv' = [inv EXCEPT ![p] =
                              Suspended("fetch_kanji_list", list_name, list_name,
                                  fetch_kanji_list_request(list_name, call.config),
                                  call.config)]
                /\ ReadConfig(call)

await_fetch_kanji_list_resume(p, resp) ==
    /\ inv[p].pc = "awaiting"
    /\ inv[p].tool = "fetch_kanji_list"
    /\ LET fetched == fetch_kanji_list(resp)
       IN  inv' = [inv EXCEPT ![p] =
                      Resumed(inv[p], resp, fetch_kanji_list_try(resp), fetched,
                              FetcherOutcome(fetched))]
    /\ NoConfigRead

await_fetch_kanji_by_reading(p, reading_value) ==
    /\ inv[p].pc = "idle"
    /\ LET call == get_env_configs(cached_config, env)
       IN  IF fetch_kanji_by_reading_rejects(reading_value)
           THEN /\ inv' = [inv EXCEPT ![p] = GuardReturned("fetch_kanji_by_reading", reading_value)]
                /\ NoConfigRead
           ELSE /\ inv' = [inv EXCEPT ![p] =
                              Suspended("fetch_kanji_by_reading", reading_value, reading_value,
                                  fetch_kanji_by_reading_request(reading_value, call.config),
                                  call.config)]
                /\ ReadConfig(call)

await_fetch_kanji_by_reading_resume(p, resp) ==
    /\ inv[p].pc = "awaiting"
    /\ inv[p].tool = "fetch_kanji_by_reading"
    /\ LET fetched == fetch_kanji_by_reading(resp)
       IN  inv' = [inv EXCEPT ![p] =
                      Resumed(inv[p], resp, fetch_kanji_by_reading_try(resp), fetched,
                              FetcherOutcome(fetched))]
    /\ NoConfigRead

await_fetch_words_for_kanji(p, kanji_char) ==
    /\ inv[p].pc = "idle"
    /\ LET call == get_env_configs(cached_config, env)
       IN  IF fetch_words_for_kanji_rejects(kanji_char)
           THEN /\ inv' = [inv EXCEPT ![p] = GuardReturned("fetch_words_for_kanji", kanji_char)]
                /\ NoConfigRead
           ELSE /\ inv' = [inv EXCEPT ![p] =
                              Suspended("fetch_words_for_kanji", kanji_char, kanji_char,
                                  fetch_words_for_kanji_request(kanji_char, call.config),
                                  call.config)]
                /\ ReadConfig(call)

await_fetch_words_for_kanji_resume(p, resp) ==
    /\ inv[p].pc = "awaiting"
    /\ inv[p].tool = "fetch_words_for_kanji"
    /\ LET fetched == fetch_words_for_kanji(resp)
       IN  inv' = [inv EXCEPT ![p] =
                      Resumed(inv[p], resp, fetch_words_for_kanji_try(resp), fetched,
                              FetcherOutcome(fetched))]
    /\ NoConfigRead

await_fetch_wanikani_user_info(p, api_token) ==
    /\ inv[p].pc = "idle"
    /\ LET call == get_env_configs(cached_config, env)
       IN  IF fetch_wanikani_user_info_rejects(api_token)
           THEN /\ inv' = [inv EXCEPT ![p] = GuardReturned("fetch_wanikani_user_info", api_token)]
                /\ NoConfigRead
           ELSE /\ inv' = [inv EXCEPT ![p] =
                              Suspended("fetch_wanikani_user_info", api_token, api_token,
                                  fetch_wanikani_user_info_request(api_token, call.config),
                                  call.config)]
                /\ ReadConfig(call)

await_fetch_wanikani_user_info_resume(p, resp) ==
    /\ inv[p].pc = "awaiting"
    /\ inv[p].tool = "fetch_wanikani_user_info"
    /\ LET fetched == fetch_wanikani_user_info(resp)
       IN  inv' = [inv EXCEPT ![p] =
                      Resumed(inv[p], resp, fetch_wanikani_user_info_try(resp), fetched,
                              FetcherOutcome(fetched))]
    /\ NoConfigRead

\* One caller awaiting the fetchers one after another, with every argument of
\* at most MaxLen characters (or None) and every answer of the transport.
NextFetch ==
    \/ \E s \in InputsUpTo(MaxLen) : await_fetch_kanji_details(1, s)
    \/ \E r \in Answers(DetailBodies) : await_fetch_kanji_details_resume(1, r)
    \/ await_fetch_joyo_kanji_list(1)
    \/ \E r \in Answers(ListBodies) : await_fetch_joyo_kanji_list_resume(1, r)
    \/ \E s \in InputsUpTo(MaxLen) : await_fetch_kanji_list(1, s)
    \/ \E r \in Answers(ListBodies) : await_fetch_kanji_list_resume(1, r)
    \/ \E s \in InputsUpTo(MaxLen) : await_fetch_kanji_by_reading(1, s)
    \/ \E r \in Answers(ReadingBodies) : await_fetch_kanji_by_reading_resume(1, r)
    \/ \E s \in InputsUpTo(MaxLen) : await_fetch_words_for_kanji(1, s)
    \/ \E r \in Answers(WordsBodies) : await_fetch_words_for_kanji_resume(1, r)
    \/ \E tok \in Tokens : await_fetch_wanikani_user_info(1, tok)
    \/ \E r \in Answers(UserBodies) : await_fetch_wanikani_user_info_resume(1, r)
    \/ Return(1)

SpecFetch == Init /\ [][NextFetch]_vars

\* ------------------------------------------------ the two category paths
\* The Joyo list is reachable two ways: list_joyo_kanji / fetch_joyo_kanji_list
\* and get_kanji_list_by_category / fetch_kanji_list with the category
\* "joyo".  Slot 1 runs the first path and slot 2 the second, as tool or as
\* fetcher awaited directly, each against every answer of the transport.
\* The category name is the one symbol "joyo", bare or padded with
\* whitespace; another category is kept for contrast.
Joyo == PyStr(<<"joyo">>)

JoyoInputs == {Joyo, PyStr(<<" ", "joyo", " ">>), PyStr(<<"g">>)}

NextJoyo ==
    \/ list_joyo_kanji(1)
    \/ \E r \in Answers(ListBodies) : list_joyo_kanji_resume(1, r)
    \/ await_fetch_joyo_kanji_list(1)
    \/ \E r \in Answers(ListBodies) : await_fetch_joyo_kanji_list_resume(1, r)
    \/ \E s \in JoyoInputs : get_kanji_list_by_category(2, s)
    \/ \E r \in Answers(ListBodies) : get_kanji_list_by_category_resume(2, r)
    \/ \E s \in JoyoInputs : await_fetch_kanji_list(2, s)
    \/ \E r \in Answers(ListBodies) : await_fetch_kanji_list_resume(2, r)
    \/ \E p \in {1, 2} : Return(p)

SpecJoyo == Init /\ [][NextJoyo]_vars

\* ------------------------------------------------------------------ claims
SingleCharTools == {"get_kanji_details", "get_words_for_kanji"}

FreeTextTools == {"get_kanji_list_by_category", "get_kanji_by_reading"}

KanjiTools == SingleCharTools \cup FreeTextTools \cup {"list_joyo_kanji"}

\* The trimmed form of a string, said without the recursion of strip: what
\* lies between its first and its last non-whitespace character.
Trimmed(s) ==
    LET inked == {i \in 1..Len(s) : s[i] \notin Whitespace}
    IN  IF inked = {} THEN <<>>
        ELSE SubSeq(s, CHOOSE i \in inked : \A j \in inked : i <= j,
                       CHOOSE i \in inked : \A j \in inked : j <= i)

\* Length of the trimmed input; a non-string has none, counted as 0.
TrimmedLen(v) == IF IsStr(v) THEN Len(Trimmed(v.s)) ELSE 0

\* The invocation in slot p raised the recoverable input error and touched
\* neither its fetcher nor the network.
InputErrorOnly(p) ==
    /\ inv[p].pc = "done"
    /\ inv[p].outcome.k = "raised"
    /\ inv[p].outcome.error.cls = "RetryableToolError"
    /\ inv[p].fetch_calls = 0
    /\ inv[p].http_requests = 0
    /\ inv[p].request = NoRequest

\* C1: in get_kanji_details and get_words_for_kanji every input whose trimmed
\* length is not exactly 1 (empty, whitespace only, several characters, None)
\* ends in RetryableToolError with zero fetcher calls and zero HTTP requests.
C1_SingleCharInputError ==
    \A p \in Procs :
        (inv[p].pc # "idle" /\ inv[p].tool \in SingleCharTools
            /\ TrimmedLen(inv[p].input) # 1)
        => InputErrorOnly(p)

\* A two-character input was given to get_words_for_kanji and refused.
C1_Witness ==
    \E p \in Procs :
        /\ inv[p].tool = "get_words_for_kanji"
        /\ inv[p].input = PyStr(<<"U+6C34", "g">>)
        /\ InputErrorOnly(p)

\* C2: in get_kanji_list_by_category and get_kanji_by_reading every input that
\* is empty after trimming (empty, whitespace only, None) ends in
\* RetryableToolError with zero fetcher calls and zero HTTP requests.
C2_FreeTextInputError ==
    \A p \in Procs :
        (inv[p].pc # "idle" /\ inv[p].tool \in FreeTextTools
            /\ TrimmedLen(inv[p].input) = 0)
        => InputErrorOnly(p)

\* A whitespace-only reading was given to get_kanji_by_reading and refused.
C2_Witness ==
    \E p \in Procs :
        /\ inv[p].tool = "get_kanji_by_reading"
        /\ inv[p].input = PyStr(<<" ", " ">>)
        /\ InputErrorOnly(p)

\* The fetcher of slot p was called after validation and returned None.
FetcherGaveNone(p) ==
    /\ inv[p].pc = "done"
    /\ inv[p].fetch_calls = 1
    /\ inv[p].fetch_returns = 1
    /\ inv[p].fetched.raised = ""
    /\ inv[p].fetched.value = PyNone

\* The invocation in slot p raised ToolExecutionError with a user-facing
\* message and nothing else: no developer message, no retry guidance.
ExecutionErrorOnly(p) ==
    /\ inv[p].outcome.k = "raised"
    /\ inv[p].outcome.error.cls = "ToolExecutionError"
    /\ IsStr(inv[p].outcome.error.message)
    /\ inv[p].outcome.error.developer_message = PyNone
    /\ inv[p].outcome.error.additional_prompt_content = PyNone

\* C3: whenever the fetcher returns None after a validation-passing call, each
\* of the five kanji tools raises ToolExecutionError without retry guidance
\* (never a success payload), and the profile tool returns a descriptive
\* string without raising.
C3_NoResultBecomesExecutionError ==
    \A p \in Procs :
        FetcherGaveNone(p) =>
            IF inv[p].tool = "get_user_information"
            THEN inv[p].outcome.k = "returned" /\ IsStr(inv[p].outcome.value)
                    /\ Len(inv[p].outcome.value.s) > 0
            ELSE inv[p].tool \in KanjiTools /\ ExecutionErrorOnly(p)

\* list_joyo_kanji got a 2xx body that is no list of strings and raised.
C3_Witness ==
    \E p \in Procs :
        /\ inv[p].tool = "list_joyo_kanji"
        /\ inv[p].response = Responds(200, ListBodyNonString)
        /\ FetcherGaveNone(p)
        /\ ExecutionErrorOnly(p)

\* get_kanji_details was given the kanji U+6C34 and the backend answered 200
\* with body.
DetailScenario(p, body) ==
    /\ inv[p].pc = "done"
    /\ inv[p].tool = "get_kanji_details"
    /\ inv[p].input = PyStr(Mizu)
    /\ inv[p].response = Responds(200, body)

\* The fields a KanjiDetailModel carries when nothing was sent for them and
\* that model_dump(exclude_none=True) keeps: the four empty lists.
DetailDefaults ==
    [kun_readings |-> PyList(<<>>), on_readings |-> PyList(<<>>),
     name_readings |-> PyList(<<>>), notes |-> PyList(<<>>)]

\* C4 as stated: for input U+6C34 and a 2xx body holding exactly kanji,
\* stroke_count 4 and meanings ['water'], get_kanji_details returns a payload
\* that decodes to those three fields and nothing beyond the defaults.
C4_Original ==
    \A p \in Procs :
        DetailScenario(p, DetailBodyThreeFields) =>
            /\ inv[p].outcome.k = "returned"
            /\ json_loads(inv[p].outcome.value) =
                  PyDict([kanji |-> PyStr(Mizu), stroke_count |-> PyInt(4),
                          meanings |-> PyList(<<PyStr(<<"water">>)>>),
                          kun_readings |-> DetailDefaults.kun_readings,
                          on_readings |-> DetailDefaults.on_readings,
                          name_readings |-> DetailDefaults.name_readings,
                          notes |-> DetailDefaults.notes])

\* C4 amended: the scenario succeeds when the body also holds the required
\* unicode codepoint: the payload then decodes to kanji, stroke_count,
\* meanings, unicode and, beyond them, only the four default empty lists.
\* With exactly the three fields the required unicode field is missing, the
\* fetch yields None and the tool raises ToolExecutionError.
C4_DetailScenario ==
    \A p \in Procs :
        /\ DetailScenario(p, DetailBodyWithUnicode) =>
              /\ inv[p].outcome.k = "returned"
              /\ json_loads(inv[p].outcome.value) =
                    PyDict([kanji |-> PyStr(Mizu), stroke_count |-> PyInt(4),
                            meanings |-> PyList(<<PyStr(<<"water">>)>>),
                            unicode |-> PyStr(<<"6c34">>),
                            kun_readings |-> DetailDefaults.kun_readings,
                            on_readings |-> DetailDefaults.on_readings,
                            name_readings |-> DetailDefaults.name_readings,
                            notes |-> DetailDefaults.notes])
        /\ DetailScenario(p, DetailBodyThreeFields) =>
              /\ inv[p].exc = "ValidationError"
              /\ FetcherGaveNone(p)
              /\ ExecutionErrorOnly(p)

\* The scenario has run with the codepoint present and returned a payload.
C4_Witness ==
    \E p \in Procs :
        DetailScenario(p, DetailBodyWithUnicode) /\ inv[p].outcome.k = "returned"

\* Two characters that are the same letter, case apart.
SameLetter(a, b) == a = b \/ {a, b} = {"G", "g"}

\* What s can be once surrounding whitespace is taken off: every substring
\* of s that leaves only whitespace before and after it.
Cores(s) ==
    {SubSeq(s, i, j) : <<i, j>> \in
        {ij \in (1..Len(s) + 1) \X (0..Len(s)) :
            /\ ij[1] <= ij[2] + 1
            /\ \A k \in 1..Len(s) : (k < ij[1] \/ k > ij[2]) => s[k] \in Whitespace}}

\* a and b differ only in letter case and surrounding whitespace.
SameName(a, b) ==
    \E ca \in Cores(a), cb \in Cores(b) :
        /\ Len(ca) = Len(cb)
        /\ \A k \in 1..Len(ca) : SameLetter(ca[k], cb[k])

\* C5: the category normalization of get_kanji_list_by_category is idempotent
\* (normalizing the name handed to the fetcher changes nothing) and
\* case-insensitive: every name that differs from the given one only in letter
\* case and surrounding whitespace normalizes to the value that was handed to
\* the fetcher and makes the same request.  Stated of the moment the fetcher
\* has issued its request.
C5_CategoryNormalization ==
    \A p \in Procs :
        (inv[p].tool = "get_kanji_list_by_category" /\ inv[p].pc = "awaiting") =>
            /\ inv[p].fetch_calls = 1
            /\ stripped_lower(inv[p].arg) = inv[p].arg
            /\ \A s \in StringsUpTo(MaxLen) :
                  SameName(inv[p].input.s, s) =>
                      /\ stripped_lower(PyStr(s)) = inv[p].arg
                      /\ ~fetch_kanji_list_rejects(stripped_lower(PyStr(s)))
                      /\ fetch_kanji_list_request(stripped_lower(PyStr(s)), cached_config)
                            = inv[p].request

\* ' G ' was given as the category and 'g' was handed to the fetcher.
C5_Witness ==
    \E p \in Procs :
        /\ inv[p].tool = "get_kanji_list_by_category"
        /\ inv[p].input = PyStr(<<" ", "G", " ">>)
        /\ inv[p].pc = "awaiting"
        /\ inv[p].arg = PyStr(<<"g">>)

\* The value each tool is to hand to its fetcher.
Normalized(tool, v) ==
    IF tool = "get_kanji_list_by_category" THEN lower(Trimmed(v.s)) ELSE Trimmed(v.s)

\* The input passes the tool's validation rule.
PassesValidation(tool, v) ==
    /\ IsStr(v)
    /\ tool \in SingleCharTools => TrimmedLen(v) = 1
    /\ tool \in FreeTextTools => TrimmedLen(v) > 0

\* The last n symbols of s.
Suffix(s, n) == SubSeq(s, Len(s) - n + 1, Len(s))

\* C6: for every input that passes validation each kanji tool calls its
\* fetcher exactly once, with the trimmed string (get_kanji_details,
\* get_words_for_kanji, get_kanji_by_reading; case preserved) or the trimmed
\* and lowercased string (get_kanji_list_by_category), never the raw input:
\* that value ends the requested URL and is the one the execution-error
\* message names.  list_joyo_kanji, which has no input, calls its fetcher once.
C6_FetcherGetsNormalizedValue ==
    \A p \in Procs :
        /\ (inv[p].pc # "idle" /\ inv[p].tool \in SingleCharTools \cup FreeTextTools
                /\ PassesValidation(inv[p].tool, inv[p].input)) =>
              LET n == Normalized(inv[p].tool, inv[p].input)
              IN  /\ inv[p].fetch_calls = 1
                  /\ inv[p].arg = PyStr(n)
                  /\ inv[p].http_requests = 1
                  /\ Suffix(inv[p].request.url, Len(n) + 1) = <<"/">> \o n
                  /\ (inv[p].outcome.k = "raised" /\ inv[p].fetch_returns = 1) =>
                        /\ inv[p].outcome.error.cls = "ToolExecutionError"
                        /\ SubSeq(inv[p].outcome.error.message.s, 2,
                                  Len(inv[p].outcome.error.message.s) - 1) = n
        /\ (inv[p].pc # "idle" /\ inv[p].tool = "list_joyo_kanji") =>
              inv[p].fetch_calls = 1

\* ' G ' was given as a reading, 'G' was handed to the fetcher and the
\* execution error names 'G'.
C6_Witness ==
    \E p \in Procs :
        /\ inv[p].tool = "get_kanji_by_reading"
        /\ inv[p].input = PyStr(<<" ", "G", " ">>)
        /\ inv[p].arg = PyStr(<<"G">>)
        /\ inv[p].pc = "done"
        /\ inv[p].outcome.k = "raised"
        /\ inv[p].outcome.error.cls = "ToolExecutionError"

\* C7: get_user_information never raises: for every token (missing, empty,
\* invalid, valid) and every answer of the backend the invocation ends by
\* returning a string, the serialized profile when the fetch succeeded and an
\* explanatory string otherwise.
C7_ProfileToolNeverRaises ==
    \A p \in Procs :
        (inv[p].pc = "done" /\ inv[p].tool = "get_user_information") =>
            /\ inv[p].outcome.k = "returned"
            /\ IF inv[p].fetch_returns = 1 /\ inv[p].fetched.value # PyNone
               THEN /\ inv[p].outcome.value.t = "jsontext"
                    /\ json_loads(inv[p].outcome.value) =
                          PyDict([username |-> inv[p].response.body.d.data.d.username,
                                  level |-> inv[p].response.body.d.data.d.level])
               ELSE IsStr(inv[p].outcome.value) /\ Len(inv[p].outcome.value.s) > 0

\* A 2xx envelope without its data made the model constructor raise and the
\* tool returned its explanatory string.
C7_Witness ==
    \E p \in Procs :
        /\ inv[p].pc = "done"
        /\ inv[p].tool = "get_user_information"
        /\ inv[p].response = Responds(200, UserBodyNoData)
        /\ inv[p].exc = "ValidationError"
        /\ inv[p].outcome.k = "returned"
        /\ IsStr(inv[p].outcome.value)

\* C8: with the token missing (None) or empty, get_user_information returns
\* the fixed string 'No WaniKani API token provided, so no user information
\* can be fetched.' and issues no HTTP request.
C8_MissingTokenFixedString ==
    \A p \in Procs :
        (inv[p].pc # "idle" /\ inv[p].tool = "get_user_information"
            /\ inv[p].input \in {PyNone, PyStr(<<>>)}) =>
            /\ inv[p].pc = "done"
            /\ inv[p].outcome = Returns(PyStr(
                  <<"No WaniKani API token provided, so no user information can be fetched.">>))
            /\ inv[p].http_requests = 0
            /\ inv[p].request = NoRequest

\* The tool ran with an empty token and returned.
C8_Witness ==
    \E p \in Procs :
        /\ inv[p].pc = "done"
        /\ inv[p].tool = "get_user_information"
        /\ inv[p].input = PyStr(<<>>)
        /\ inv[p].outcome.k = "returned"
        /\ inv[p].http_requests = 0

\* C9: no fetcher propagates an exception: whenever a fetcher has been called
\* and is over it has returned, and on every path where the transport, the
\* status check, the JSON decoding or the model construction raised inside
\* it, it returned None.
C9_FetchersNeverPropagate ==
    \A p \in Procs :
        (inv[p].pc = "done" /\ inv[p].fetch_calls = 1) =>
            /\ inv[p].fetch_returns = 1
            /\ inv[p].fetched.raised = ""
            /\ inv[p].exc # "" => inv[p].fetched.value = PyNone
            /\ ~(inv[p].outcome.k = "raised"
                    /\ inv[p].outcome.error.cls
                          \notin {"ToolExecutionError", "RetryableToolError"})

\* One element of a words list failed to parse and the fetcher returned None.
C9_Witness ==
    \E p \in Procs :
        /\ inv[p].pc = "done"
        /\ inv[p].tool = "get_words_for_kanji"
        /\ inv[p].response = Responds(200, PyList(<<WordGood, WordBad>>))
        /\ inv[p].exc = "ValidationError"
        /\ inv[p].fetched = [Value(PyNone) EXCEPT
                                !.logged = {Printed("fetch_words_for_kanji",
                                                    "Unexpected error", "ValidationError")}]

\* The kanji tool in slot p called its fetcher and raised.
FailedAfterFetch(p) ==
    /\ inv[p].pc = "done"
    /\ inv[p].tool \in KanjiTools
    /\ inv[p].fetch_calls = 1
    /\ inv[p].outcome.k = "raised"

\* Names by which a failure cause could be told: the exception classes and
\* whatever the fetcher printed about this failure.
DiagnosticWords(p) ==
    UNION {Bases(x) : x \in {"ConnectError", "ReadTimeout", "HTTPStatusError",
                             "JSONDecodeError", "ValidationError", "TypeError"}}
        \cup {l.detail : l \in inv[p].logged} \cup {l.event : l \in inv[p].logged}

\* C10: failure causes are indistinguishable: two invocations of the same
\* kanji tool with the same input that both fail after validation surface the
\* identical error (same kind, same message) whatever their causes, and the
\* error holds no diagnostic detail of the cause.
C10_FailureCausesIndistinguishable ==
    /\ \A p, q \in Procs :
          (FailedAfterFetch(p) /\ FailedAfterFetch(q)
              /\ inv[p].tool = inv[q].tool /\ inv[p].input = inv[q].input)
          => inv[p].outcome.error = inv[q].outcome.error
    /\ \A p \in Procs :
          FailedAfterFetch(p) =>
              /\ ExecutionErrorOnly(p)
              /\ \A i \in 1..Len(inv[p].outcome.error.message.s) :
                    inv[p].outcome.error.message.s[i] \notin DiagnosticWords(p)

\* Two invocations of get_kanji_details with the same input have failed, one
\* on a connection error and one on a body that did not validate.
C10_Witness ==
    \E p, q \in Procs :
        /\ FailedAfterFetch(p) /\ FailedAfterFetch(q)
        /\ inv[p].tool = "get_kanji_details" /\ inv[q].tool = "get_kanji_details"
        /\ inv[p].input = inv[q].input
        /\ inv[p].exc = "ConnectError"
        /\ inv[q].exc = "ValidationError"
        /\ inv[p].outcome = inv[q].outcome

\* The request of frame f failed: the transport raised (connection error,
\* timeout), the status was not 2xx, or the body had a shape the fetcher
\* turned into no result.
RequestFailed(f) ==
    \/ f.response.k = "raise"
    \/ f.response.k = "response" /\ f.response.status \notin 200..299
    \/ f.response.k = "response" /\ f.fetched.value = PyNone

\* Frame f ended with a serialized success payload.
Succeeded(f) == f.outcome.k = "returned" /\ f.outcome.value.t = "jsontext"

\* C11: every tool invocation issues at most one outbound HTTP request and
\* never retries: the step that takes the answer of the request ends the
\* invocation with the same single request on record, a failed request (error
\* status, transport error, timeout, bad shape) ends it without a success
\* payload, and once ended an invocation does nothing more until its slot is
\* handed back.
C11_AtMostOneRequestNoRetry ==
    [][\A p \in Procs :
          /\ inv'[p].http_requests <= 1
          /\ (inv[p].pc = "awaiting" /\ inv'[p] # inv[p]) =>
                /\ inv'[p].pc = "done"
                /\ inv'[p].http_requests = 1
                /\ inv'[p].request = inv[p].request
                /\ RequestFailed(inv'[p]) => ~Succeeded(inv'[p])
          /\ (inv[p].pc = "done" /\ inv'[p] # inv[p]) => inv'[p] = Idle]_vars

\* The words lookup got a 500, ended with its error and had issued one request.
C11_Witness ==
    \E p \in Procs :
        /\ inv[p].pc = "done"
        /\ inv[p].tool = "get_words_for_kanji"
        /\ inv[p].response.k = "response" /\ inv[p].response.status = 500
        /\ inv[p].http_requests = 1
        /\ inv[p].outcome.k = "raised"

\* The body is a JSON array whose every element has the shape of a WordEntry:
\* an object with a list of meanings, each an object with a list of gloss
\* strings, and a list of variants, each an object with a written string, an
\* optional pronounced string and an optional list of priority strings.
IsStrList(v) == v.t = "list" /\ \A i \in 1..Len(v.xs) : v.xs[i].t = "str"

IsMeaningShape(v) ==
    v.t = "dict" /\ "glosses" \in DOMAIN v.d /\ IsStrList(v.d.glosses)

IsVariantShape(v) ==
    /\ v.t = "dict"
    /\ "written" \in DOMAIN v.d /\ v.d.written.t = "str"
    /\ "pronounced" \in DOMAIN v.d => v.d.pronounced.t \in {"str", "none"}
    /\ "priorities" \in DOMAIN v.d => IsStrList(v.d.priorities)

IsWordShape(v) ==
    /\ v.t = "dict"
    /\ "meanings" \in DOMAIN v.d /\ v.d.meanings.t = "list"
    /\ \A i \in 1..Len(v.d.meanings.xs) : IsMeaningShape(v.d.meanings.xs[i])
    /\ "variants" \in DOMAIN v.d /\ v.d.variants.t = "list"
    /\ \A i \in 1..Len(v.d.variants.xs) : IsVariantShape(v.d.variants.xs[i])

AllWordsParse(body) ==
    body.t = "list" /\ \A i \in 1..Len(body.xs) : IsWordShape(body.xs[i])

\* C12: the words lookup has no partial success: after a 2xx answer
\* get_words_for_kanji returns a payload only if the body is a list whose
\* every element parses into a WordEntry, and the payload then has one entry
\* per element; if the body is no list or any one element fails to parse the
\* fetcher yields None and the tool raises ToolExecutionError.
C12_WordsAllOrNothing ==
    \A p \in Procs :
        (inv[p].pc = "done" /\ inv[p].tool = "get_words_for_kanji"
            /\ inv[p].response.k = "response" /\ is_success(inv[p].response.status)
            /\ inv[p].response.body # Malformed) =>
            IF AllWordsParse(inv[p].response.body)
            THEN /\ inv[p].outcome.k = "returned"
                 /\ json_loads(inv[p].outcome.value).t = "list"
                 /\ Len(json_loads(inv[p].outcome.value).xs)
                       = Len(inv[p].response.body.xs)
            ELSE FetcherGaveNone(p) /\ ExecutionErrorOnly(p)

\* A list with one well-formed and one malformed element was answered and
\* the tool raised its execution error.
C12_Witness ==
    \E p \in Procs :
        /\ inv[p].pc = "done"
        /\ inv[p].tool = "get_words_for_kanji"
        /\ inv[p].response = Responds(200, PyList(<<WordGood, WordBad>>))
        /\ FetcherGaveNone(p)
        /\ ExecutionErrorOnly(p)

ListTools == {"list_joyo_kanji", "get_kanji_list_by_category"}

\* C13: for fetch_joyo_kanji_list and fetch_kanji_list a 2xx answer is a
\* success only when the body decodes to a list whose every element is a
\* string, and the tool then returns that exact array in the same order; a
\* 2xx answer of any other shape (an object, a scalar, a list holding a
\* non-string) yields None and the tool raises ToolExecutionError.
C13_ListShape ==
    \A p \in Procs :
        (inv[p].pc = "done" /\ inv[p].tool \in ListTools
            /\ inv[p].response.k = "response" /\ is_success(inv[p].response.status)
            /\ inv[p].response.body # Malformed) =>
            IF IsStrList(inv[p].response.body)
            THEN /\ inv[p].outcome.k = "returned"
                 /\ json_loads(inv[p].outcome.value) = inv[p].response.body
            ELSE /\ inv[p].exc = ""
                 /\ FetcherGaveNone(p)
                 /\ ExecutionErrorOnly(p)

\* A category list was answered with a list holding a number and the tool
\* raised although the status was 200.
C13_Witness ==
    \E p \in Procs :
        /\ inv[p].pc = "done"
        /\ inv[p].tool = "get_kanji_list_by_category"
        /\ inv[p].response = Responds(200, ListBodyNonString)
        /\ FetcherGaveNone(p)
        /\ ExecutionErrorOnly(p)

\* The JSON text of an empty array.
EmptyArrayText == [t |-> "jsontext", v |-> [j |-> "array", items |-> <<>>]]

\* C14: an empty list is a success: when the fetcher returns an empty list,
\* list_joyo_kanji, get_kanji_list_by_category and get_words_for_kanji return
\* the JSON text of an empty array; these three tools raise their execution
\* error only when the fetcher returned None.
C14_EmptyListIsSuccess ==
    \A p \in Procs :
        (inv[p].pc = "done" /\ inv[p].fetch_returns = 1
            /\ inv[p].tool \in ListTools \cup {"get_words_for_kanji"}) =>
            /\ inv[p].fetched.value = PyList(<<>>) =>
                  inv[p].outcome = Returns(EmptyArrayText)
            /\ inv[p].outcome.k = "raised" <=> inv[p].fetched.value = PyNone

\* The words lookup was answered with an empty array and returned it.
C14_Witness ==
    \E p \in Procs :
        /\ inv[p].pc = "done"
        /\ inv[p].tool = "get_words_for_kanji"
        /\ inv[p].response = Responds(200, PyList(<<>>))
        /\ inv[p].fetched.value = PyList(<<>>)
        /\ inv[p].outcome = Returns(EmptyArrayText)

\* The tools whose payload is a serialized record, or a list of them.
RecordTools == {"get_kanji_details", "get_kanji_by_reading", "get_words_for_kanji"}

\* The record type behind each of those payloads.
RecordClass(tool) ==
    CASE tool = "get_kanji_details"    -> "KanjiDetailModel"
      [] tool = "get_kanji_by_reading" -> "KanjiReading"
      [] tool = "get_words_for_kanji"  -> "WordEntry"

\* Parsing payload (a decoded JSON object) as a cls gives back record, and
\* every field the payload leaves out held its default in record.
RoundTrips(cls, record, payload) ==
    /\ payload.t = "dict"
    /\ New(cls, payload) = Value(record)
    /\ \A f \in DOMAIN Fields(cls) \ DOMAIN payload.d :
          record.f[f] = Fields(cls)[f].default

\* C15: round trip: every record a successful fetch produced (KanjiDetail,
\* ReadingEntry, each WordEntry), serialized to the tool's payload and parsed
\* back into the same record type, equals the original: the fields present
\* carry equal values and the fields left out decode to their default.
C15_RoundTrip ==
    \A p \in Procs :
        (inv[p].pc = "done" /\ inv[p].tool \in RecordTools /\ Succeeded(inv[p])) =>
            LET payload == json_loads(inv[p].outcome.value)
                record  == inv[p].fetched.value
                cls     == RecordClass(inv[p].tool)
            IN  IF inv[p].tool = "get_words_for_kanji"
                THEN /\ payload.t = "list"
                     /\ Len(payload.xs) = Len(record.xs)
                     /\ \A i \in 1..Len(record.xs) :
                           RoundTrips(cls, record.xs[i], payload.xs[i])
                ELSE RoundTrips(cls, record, payload)

\* A words list whose second entry has no pronunciation and no priorities was
\* answered and serialized.
C15_Witness ==
    \E p \in Procs :
        /\ inv[p].pc = "done"
        /\ Succeeded(inv[p])
        /\ inv[p].tool = "get_words_for_kanji"
        /\ inv[p].response = Responds(200, PyList(<<WordGood, WordSparse>>))

\* The objects a success payload consists of: the payload itself, or its
\* elements when it is an array.
PayloadObjects(f) ==
    LET payload == json_loads(f.outcome.value)
    IN  IF payload.t = "list" THEN {payload.xs[i] : i \in 1..Len(payload.xs)}
        ELSE {payload}

\* No key of v, at any depth, has the value null.
RECURSIVE NoNullMember(_)
NoNullMember(v) ==
    CASE v.t = "dict" -> \A k \in DOMAIN v.d : v.d[k] # PyNone /\ NoNullMember(v.d[k])
      [] v.t = "list" -> \A i \in 1..Len(v.xs) : NoNullMember(v.xs[i])
      [] OTHER -> TRUE

\* The fields of a record type that hold a list.
ListFields(cls) ==
    {f \in DOMAIN Fields(cls) :
        Fields(cls)[f].ty \in {"list[str]", "list[Meaning]", "list[Variant]"}}

\* C16 as stated: every success payload of get_kanji_details and
\* get_kanji_by_reading and every element of get_words_for_kanji's payload
\* has no key whose value is absent (None) or an empty list.
C16_Original ==
    \A p \in Procs :
        (inv[p].pc = "done" /\ inv[p].tool \in RecordTools /\ Succeeded(inv[p])) =>
            \A o \in PayloadObjects(inv[p]) :
                \A k \in DOMAIN o.d : o.d[k] # PyNone /\ o.d[k] # PyList(<<>>)

\* C16 amended: every success payload of get_kanji_details and
\* get_kanji_by_reading and every element of get_words_for_kanji's payload
\* omits the fields whose value is absent (None): no key, at any depth, has
\* the value null.  A field whose value is an empty list is not omitted: every
\* list field of the record type is a key of the payload, with an empty array
\* when the list is empty.
C16_PayloadOmitsNone ==
    \A p \in Procs :
        (inv[p].pc = "done" /\ inv[p].tool \in RecordTools /\ Succeeded(inv[p])) =>
            \A o \in PayloadObjects(inv[p]) :
                /\ o.t = "dict"
                /\ NoNullMember(o)
                /\ ListFields(RecordClass(inv[p].tool)) \subseteq DOMAIN o.d

\* The detail lookup returned a payload that leaves out the absent grade and
\* holds the empty list of kun readings.
C16_Witness ==
    \E p \in Procs :
        /\ inv[p].pc = "done"
        /\ inv[p].tool = "get_kanji_details"
        /\ Succeeded(inv[p])
        /\ inv[p].fetched.value.f.grade = PyNone
        /\ "grade" \notin DOMAIN json_loads(inv[p].outcome.value).d
        /\ json_loads(inv[p].outcome.value).d.kun_readings = PyList(<<>>)

\* The name of the argument each tool validates.
ArgName(tool) ==
    CASE tool \in SingleCharTools              -> "kanji_char"
      [] tool = "get_kanji_list_by_category"   -> "list_name"
      [] tool = "get_kanji_by_reading"         -> "reading_value"

\* The text s quotes the value v as received: after "Received: '" come the
\* characters of v (None reads 'None') and then the closing quote.
QuotesReceived(s, v) ==
    \E i \in 1..Len(s) :
        /\ s[i] = "Received: '"
        /\ i + Len(Format(v)) + 1 <= Len(s)
        /\ SubSeq(s, i + 1, i + Len(Format(v))) = Format(v)
        /\ s[i + Len(Format(v)) + 1] \in {"'", "', Cleaned: '"}

\* C17: a recoverable input error raised by a kanji tool carries three parts:
\* a user-facing message, a developer message that names the failing tool
\* argument and quotes the value actually received, and guidance telling the
\* agent to ask the end user; an execution error carries only a user-facing
\* message and neither of the other two parts.
C17_ErrorParts ==
    \A p \in Procs :
        (inv[p].pc = "done" /\ inv[p].tool \in KanjiTools /\ inv[p].outcome.k = "raised") =>
            LET e == inv[p].outcome.error
            IN  /\ e.cls \in {"RetryableToolError", "ToolExecutionError"}
                /\ e.cls = "RetryableToolError" =>
                      /\ IsStr(e.message) /\ Len(e.message.s) > 0
                      /\ IsStr(e.developer_message)
                      /\ \E i \in 1..Len(e.developer_message.s) :
                            e.developer_message.s[i] = ArgName(inv[p].tool)
                      /\ QuotesReceived(e.developer_message.s, inv[p].input)
                      /\ IsStr(e.additional_prompt_content)
                      /\ \E i \in 1..Len(e.additional_prompt_content.s) :
                            e.additional_prompt_content.s[i] = "Please ask the user"
                /\ e.cls = "ToolExecutionError" =>
                      /\ IsStr(e.message) /\ Len(e.message.s) > 0
                      /\ e.developer_message = PyNone
                      /\ e.additional_prompt_content = PyNone

\* A reading made of two spaces was refused and the developer message quotes
\* the two spaces as received.
C17_Witness ==
    \E p \in Procs :
        /\ inv[p].pc = "done"
        /\ inv[p].tool = "get_kanji_by_reading"
        /\ inv[p].input = PyStr(<<" ", " ">>)
        /\ inv[p].outcome.k = "raised"
        /\ inv[p].outcome.error.cls = "RetryableToolError"
        /\ QuotesReceived(inv[p].outcome.error.developer_message.s, PyStr(<<" ", " ">>))

SingleCharFetchers == {"fetch_kanji_details", "fetch_words_for_kanji"}

FreeTextFetchers == {"fetch_kanji_list", "fetch_kanji_by_reading"}

\* The argument breaks the precondition of fetcher fn.
BreaksPrecondition(fn, v) ==
    CASE fn \in SingleCharFetchers -> ~(IsStr(v) /\ Len(v.s) = 1)
      [] fn \in FreeTextFetchers -> v = PyStr(<<>>)
      [] fn = "fetch_wanikani_user_info" -> v \in {PyStr(<<>>), PyNone}
      [] OTHER -> FALSE

\* The call in slot p returned None at once: no configuration read, no
\* client opened, no request issued.
ReturnedNoneWithoutRequest(p) ==
    /\ inv[p].pc = "done"
    /\ inv[p].outcome = Returns(PyNone)
    /\ inv[p].http_requests = 0
    /\ inv[p].request = NoRequest
    /\ inv[p].clients = 0
    /\ inv[p].response = NoResponse

\* C18: called directly, fetch_kanji_details and fetch_words_for_kanji return
\* None without any HTTP request when the argument is not a string of exactly
\* one character, fetch_kanji_list and fetch_kanji_by_reading when it is
\* empty, fetch_wanikani_user_info when the token is empty or absent.
C18_FetcherPreconditions ==
    \A p \in Procs :
        (inv[p].pc # "idle" /\ BreaksPrecondition(inv[p].tool, inv[p].input)) =>
            ReturnedNoneWithoutRequest(p)

\* fetch_words_for_kanji was awaited with two characters and returned None
\* without a request.
C18_Witness ==
    \E p \in Procs :
        /\ inv[p].tool = "fetch_words_for_kanji"
        /\ inv[p].input = PyStr(<<"U+6C34", "g">>)
        /\ ReturnedNoneWithoutRequest(p)

\* The slots whose fetcher call is in flight.
InFlight == {p \in Procs : inv[p].pc = "awaiting"}

\* The number of clients open over the slots 1..n.
RECURSIVE OpenUpTo(_)
OpenUpTo(n) == IF n = 0 THEN 0 ELSE inv[n].clients + OpenUpTo(n - 1)

OpenConnections == OpenUpTo(NProcs)

\* C19: connection scoping: a fetcher call in flight holds exactly one client
\* and a call that is over holds none, whichever way it ended (success, error
\* status, transport error, timeout, malformed body, unexpected exception);
\* an invocation refused by validation never opened one.  Hence the number of
\* open connections equals the number of calls in flight and is zero when
\* none is.
C19_ConnectionScoping ==
    /\ \A p \in Procs :
          /\ inv[p].clients = (IF inv[p].pc = "awaiting" THEN 1 ELSE 0)
          /\ inv[p].http_requests = 0 => inv[p].clients = 0
    /\ OpenConnections = Cardinality(InFlight)
    /\ InFlight = {} => OpenConnections = 0

\* One call has ended on a timeout and released its client while another is
\* in flight and holds one.
C19_Witness ==
    \E p, q \in Procs :
        /\ inv[p].pc = "done"
        /\ inv[p].exc = "ReadTimeout"
        /\ inv[p].clients = 0
        /\ inv[q].pc = "awaiting"
        /\ inv[q].clients = 1
        /\ OpenConnections = 1

\* The slots whose fetcher has called get_env_configs().
ConfigReaders == {p \in Procs : inv[p].config # PyNone}

\* C20: the configuration snapshot is created exactly once: under every
\* interleaving of concurrent invocations AakeedoConfig is constructed at
\* most once (and exactly once as soon as a fetcher has read it), every call
\* of get_env_configs got the one cached snapshot, and once the cache is set
\* no step replaces or changes it.
C20_ConfigCreatedOnce ==
    /\ [](/\ config_built <= 1
          /\ (config_built = 0) <=> (cached_config = PyNone)
          /\ ConfigReaders # {} => config_built = 1
          /\ \A p \in ConfigReaders : inv[p].config = cached_config)
    /\ [][cached_config # PyNone => cached_config' = cached_config]_vars

\* Two invocations in flight at once have both read the configuration, which
\* was constructed once.
C20_Witness ==
    \E p, q \in Procs :
        /\ p # q
        /\ inv[p].pc = "awaiting" /\ inv[q].pc = "awaiting"
        /\ inv[p].config = cached_config /\ inv[q].config = cached_config
        /\ cached_config # PyNone
        /\ config_built = 1

\* The outcome of a tool run by itself from call to return, with nothing
\* else in flight: validation, the fetcher's guard, the fetch answered by
\* resp and the result step, one after the other.
Alone(tool, input, resp) ==
    CASE tool = "get_kanji_details" ->
            LET cleaned == stripped(input)
            IN  IF not_single_char(cleaned)
                THEN Raises(get_kanji_details_input_error(input, cleaned))
                ELSE get_kanji_details_result(cleaned,
                        IF fetch_kanji_details_rejects(cleaned) THEN Value(PyNone)
                        ELSE fetch_kanji_details(resp))
      [] tool = "list_joyo_kanji" ->
            list_joyo_kanji_result(fetch_joyo_kanji_list(resp))
      [] tool = "get_kanji_list_by_category" ->
            LET cleaned == stripped_lower(input)
            IN  IF ~Truthy(cleaned)
                THEN Raises(get_kanji_list_by_category_input_error(input))
                ELSE get_kanji_list_by_category_result(cleaned,
                        IF fetch_kanji_list_rejects(cleaned) THEN Value(PyNone)
                        ELSE fetch_kanji_list(resp))
      [] tool = "get_kanji_by_reading" ->
            LET cleaned == stripped(input)
            IN  IF ~Truthy(cleaned)
                THEN Raises(get_kanji_by_reading_input_error(input))
                ELSE get_kanji_by_reading_result(cleaned,
                        IF fetch_kanji_by_reading_rejects(cleaned) THEN Value(PyNone)
                        ELSE fetch_kanji_by_reading(resp))
      [] tool = "get_words_for_kanji" ->
            LET cleaned == stripped(input)
            IN  IF not_single_char(cleaned)
                THEN Raises(get_words_for_kanji_input_error(input, cleaned))
                ELSE get_words_for_kanji_result(cleaned,
                        IF fetch_words_for_kanji_rejects(cleaned) THEN Value(PyNone)
                        ELSE fetch_words_for_kanji(resp))
      [] tool = "get_user_information" ->
            IF token_missing(input) THEN Returns(NoTokenMessage)
            ELSE get_user_information_result(
                    IF fetch_wanikani_user_info_rejects(input) THEN Value(PyNone)
                    ELSE fetch_wanikani_user_info(resp))

\* What an invocation was given: its tool, its input and the answer of the
\* backend to its request.
Given(f) == <<f.tool, f.input, f.response>>

\* What an invocation made of it.
Made(f) == <<f.arg, f.request.method, f.exc, f.fetched, f.outcome, f.logged>>

\* C21: in-flight invocations are independent: under every interleaving of
\* concurrent invocations the outcome of an invocation is the outcome the
\* tool has when run alone with the same input and the same backend answer,
\* two invocations given the same end the same whatever ran beside them, and
\* no step of one invocation changes the frame of another; the configuration
\* snapshot is the only state they share.
C21_InvocationsIndependent ==
    /\ [](\A p \in Procs :
            inv[p].pc = "done" =>
                inv[p].outcome = Alone(inv[p].tool, inv[p].input, inv[p].response))
    /\ [](\A p, q \in Procs :
            (inv[p].pc = "done" /\ inv[q].pc = "done" /\ Given(inv[p]) = Given(inv[q]))
            => Made(inv[p]) = Made(inv[q]))
    /\ [][\A p, q \in Procs :
            (p # q /\ inv'[p] # inv[p]) => inv'[q] = inv[q]]_vars

\* Two invocations of the detail lookup with the same input have ended, one
\* with its payload and one with an error, each according to its own answer.
C21_Witness ==
    \E p, q \in Procs :
        /\ p # q
        /\ inv[p].pc = "done" /\ inv[q].pc = "done"
        /\ inv[p].tool = "get_kanji_details" /\ inv[q].tool = "get_kanji_details"
        /\ inv[p].input = inv[q].input
        /\ inv[p].response = Responds(200, DetailBodyComplete)
        /\ inv[q].response = Responds(404, ObjectBodyError)
        /\ Succeeded(inv[p])
        /\ inv[q].outcome.k = "raised"

\* Bodies that would parse if the status were 2xx: a complete detail record,
\* a list of strings, a reading record, a list of word entries, a profile.
WellFormedBodies ==
    {DetailBodyComplete, DetailBodyWithUnicode, ListBodyThree, ListBodyEmpty,
     ReadingBodyGood, PyList(<<WordGood>>), PyList(<<>>),
     UserBody(PyStr(<<"koichi">>), PyInt(5))}

\* C22: the status check precedes parsing in every fetcher: a response whose
\* status is not 2xx is never decoded into a record or a list; the try block
\* ends in HTTPStatusError, the fetcher returns None and the tool ends
\* without a success payload, also when the body of that response is a
\* well-formed record or list.
C22_StatusBeforeParsing ==
    \A p \in Procs :
        (inv[p].pc = "done" /\ inv[p].response.k = "response"
            /\ ~is_success(inv[p].response.status)) =>
            /\ inv[p].exc = "HTTPStatusError"
            /\ FetcherGaveNone(p)
            /\ ~Succeeded(inv[p])

\* A 404 carrying a complete detail record was answered to the detail lookup,
\* which raised its execution error.
C22_Witness ==
    \E p \in Procs :
        /\ inv[p].pc = "done"
        /\ inv[p].tool = "get_kanji_details"
        /\ inv[p].response = Responds(404, DetailBodyComplete)
        /\ inv[p].response.body \in WellFormedBodies
        /\ FetcherGaveNone(p)
        /\ ExecutionErrorOnly(p)

\* C23 as stated: every KanjiDetail a successful fetch_kanji_details returns
\* has a kanji field of exactly one glyph equal to the requested character, a
\* positive stroke count and a non-empty list of meanings; a response that
\* breaks any of these yields no result.
C23_Original ==
    \A p \in Procs :
        (inv[p].pc = "done" /\ inv[p].tool = "fetch_kanji_details"
            /\ inv[p].outcome.k = "returned" /\ inv[p].outcome.value # PyNone) =>
            LET detail == inv[p].outcome.value.f
            IN  /\ Len(detail.kanji.s) = 1
                /\ detail.kanji = inv[p].input
                /\ detail.stroke_count.n > 0
                /\ Len(detail.meanings.xs) > 0

\* C24 as stated: every ReadingEntry a successful fetch_kanji_by_reading
\* returns has a non-empty reading string; a response whose reading is empty
\* never produces a success payload from get_kanji_by_reading.
C24_Original ==
    \A p \in Procs :
        (inv[p].pc = "done" /\ inv[p].tool = "get_kanji_by_reading") =>
            /\ inv[p].fetched.value # PyNone =>
                  Len(inv[p].fetched.value.f.reading.s) > 0
            /\ (inv[p].response.k = "response" /\ inv[p].response.body.t = "dict"
                    /\ "reading" \in DOMAIN inv[p].response.body.d
                    /\ inv[p].response.body.d.reading = PyStr(<<>>)) =>
                  ~Succeeded(inv[p])

\* C25 as stated: every LearnerProfile a successful fetch_wanikani_user_info
\* returns has a non-empty username and a level within 1..60; a response
\* whose level is outside that range or whose username is empty yields no
\* result.
C25_Original ==
    \A p \in Procs :
        (inv[p].pc = "done" /\ inv[p].tool = "fetch_wanikani_user_info"
            /\ inv[p].outcome.k = "returned" /\ inv[p].outcome.value # PyNone) =>
            LET profile == inv[p].outcome.value.f
            IN  /\ Len(profile.username.s) > 0
                /\ profile.level.n \in 1..60

\* ---------------------------------------------------------------------- C26
\* The frames of the profile fetcher, awaited directly or through the tool.
ProfileFetch(f) == f.tool \in {"fetch_wanikani_user_info", "get_user_information"}

\* The header values a request carries under a name.
HeaderValues(request, name) == {h[2] : h \in {g \in request.headers : g[1] = name}}

\* C26: every request the profile fetcher issues is a GET to the configured
\* base, one slash, "user" (the base's own trailing slash not doubled), and
\* carries exactly the Authorization header "Bearer " + token and the
\* Wanikani-Revision header with the configured revision; a profile fetch
\* that has issued a request never lacks either header.
C26_ProfileRequestShape ==
    \A p \in Procs :
        (ProfileFetch(inv[p]) /\ inv[p].http_requests > 0) =>
            LET request == inv[p].request
                base == inv[p].config.wanikani_api_base_url
                n == Len(request.url)
            IN  /\ request.method = "GET"
                /\ n >= 3
                /\ request.url[n] = "user"
                /\ request.url[n - 1] = "/"
                /\ request.url[n - 2] # "/"
                /\ SubSeq(request.url, 1, n - 2) \in
                       {base, SubSeq(base, 1, Len(base) - 1)}
                /\ HeaderValues(request, "Authorization") =
                       {<<"Bearer ">> \o inv[p].arg.s}
                /\ HeaderValues(request, "Wanikani-Revision") =
                       {inv[p].config.wanikani_api_revision}
                /\ {h[1] : h \in request.headers} =
                       {"Authorization", "Wanikani-Revision"}

\* Witness: a profile request issued under the default base URL, which ends
\* with a slash.
C26_Witness ==
    \E p \in Procs :
        /\ ProfileFetch(inv[p]) /\ inv[p].pc = "awaiting"
        /\ inv[p].http_requests = 1
        /\ inv[p].config.wanikani_api_base_url[Len(inv[p].config.wanikani_api_base_url)] = "/"
        /\ inv[p].request.url =
               <<"https://", "api.wanikani.com", "/", "v2", "/", "user">>
        /\ <<"Authorization", <<"Bearer ", "valid-token">>>> \in inv[p].request.headers

\* ---------------------------------------------------------------------- C27
\* The fetcher each tool with a validated argument calls.
FetcherOf(tool) ==
    CASE tool = "get_kanji_details" -> "fetch_kanji_details"
      [] tool = "get_kanji_list_by_category" -> "fetch_kanji_list"
      [] tool = "get_kanji_by_reading" -> "fetch_kanji_by_reading"
      [] tool = "get_words_for_kanji" -> "fetch_words_for_kanji"
      [] tool = "get_user_information" -> "fetch_wanikani_user_info"

ValidatingTools ==
    {"get_kanji_details", "get_kanji_list_by_category", "get_kanji_by_reading",
     "get_words_for_kanji", "get_user_information"}

\* The invocation ended in the tool's own validation: an input error for a
\* kanji tool, the missing-token message for the profile tool.
StoppedByValidation(f) ==
    /\ f.pc = "done"
    /\ f.fetch_calls = 0

\* C27: in every invocation of a validating tool that was not stopped by the
\* tool's own validation, the argument handed to the fetcher satisfies the
\* fetcher's precondition (one character for details and words, non-empty
\* for category and reading, a non-empty token for the profile), the
\* fetcher's guard did not return early and exactly one HTTP request was
\* issued.
C27_ValidationSubsumesGuard ==
    \A p \in Procs :
        (inv[p].tool \in ValidatingTools /\ ~StoppedByValidation(inv[p])) =>
            /\ inv[p].fetch_calls = 1
            /\ ~BreaksPrecondition(FetcherOf(inv[p].tool), inv[p].arg)
            /\ inv[p].http_requests = 1
            /\ inv[p].request # NoRequest

\* Witness: get_kanji_details(" g ") passed validation and its fetcher,
\* handed "g", issued its one request.
C27_Witness ==
    \E p \in Procs :
        /\ inv[p].tool = "get_kanji_details"
        /\ inv[p].input = PyStr(<<" ", "g", " ">>)
        /\ inv[p].arg = PyStr(<<"g">>)
        /\ inv[p].pc = "awaiting"
        /\ inv[p].fetch_calls = 1
        /\ inv[p].http_requests = 1

\* ---------------------------------------------------------------------- C28
\* The class of the error an ended invocation raised, "" when it raised none.
RaisedClass(f) == IF f.outcome.k = "raised" THEN f.outcome.error.cls ELSE ""

\* The outcome of an ended kanji tool invocation matches the fetcher calls
\* made: an execution error after one call that returned None, an input
\* error with no call made, a payload after one call that returned a value.
OutcomeMatchesCalls(f) ==
    /\ f.outcome.k \in {"raised", "returned"}
    /\ RaisedClass(f) \in {"", "ToolExecutionError", "RetryableToolError"}
    /\ RaisedClass(f) = "ToolExecutionError" =>
           /\ f.fetch_calls = 1 /\ f.fetch_returns = 1
           /\ f.fetched.value = PyNone
    /\ RaisedClass(f) = "RetryableToolError" =>
           /\ f.fetch_calls = 0 /\ f.fetch_returns = 0
    /\ f.outcome.k = "returned" =>
           /\ f.fetch_calls = 1 /\ f.fetch_returns = 1
           /\ f.fetched.value # PyNone
           /\ Succeeded(f)

\* C28: in every kanji tool invocation an execution error is raised only
\* after its one fetcher call returned None, an input error only with no
\* fetcher call made, a payload is returned only after its one fetcher call
\* returned a value; no outcome exists while the fetcher call is pending, and
\* an outcome once produced stays the only one until the invocation is over.
C28_OutcomeExclusive ==
    /\ [](\A p \in Procs : inv[p].tool \in KanjiTools =>
            /\ inv[p].pc = "done" => OutcomeMatchesCalls(inv[p])
            /\ inv[p].pc = "awaiting" =>
                   (inv[p].outcome = Pending /\ inv[p].fetch_returns = 0))
    /\ [][\A p \in Procs :
            (inv[p].tool \in KanjiTools /\ inv[p].outcome # Pending) =>
                (inv'[p] = inv[p] \/ inv'[p] = Idle)]_vars

\* Witness: get_words_for_kanji succeeded after its one fetcher call returned
\* the empty list of words.
C28_Witness ==
    \E p \in Procs :
        /\ inv[p].pc = "done"
        /\ inv[p].tool = "get_words_for_kanji"
        /\ inv[p].fetch_calls = 1 /\ inv[p].fetch_returns = 1
        /\ inv[p].fetched.value = PyList(<<>>)
        /\ Succeeded(inv[p])

\* ---------------------------------------------------------------------- C29
\* The frame runs the dedicated Joyo path.
JoyoPath(f) == f.tool \in {"list_joyo_kanji", "fetch_joyo_kanji_list"}

\* The frame runs the category path and its fetcher was handed "joyo".
CategoryJoyoPath(f) ==
    /\ f.tool \in {"get_kanji_list_by_category", "fetch_kanji_list"}
    /\ f.arg = Joyo

IsTool(f) == f.tool \in {"list_joyo_kanji", "get_kanji_list_by_category"}

\* C29: fetch_joyo_kanji_list() and fetch_kanji_list('joyo') issue the same
\* single GET to /kanji/joyo and, given the same answer of the transport,
\* return the same value; list_joyo_kanji and get_kanji_list_by_category
\* ('joyo') given the same answer return the same JSON array or both raise
\* ToolExecutionError.
C29_JoyoPathsEquivalent ==
    \A p, q \in Procs :
        (JoyoPath(inv[p]) /\ CategoryJoyoPath(inv[q])) =>
            /\ inv[p].http_requests = 1 /\ inv[q].http_requests = 1
            /\ inv[p].request = inv[q].request
            /\ inv[p].request.url[Len(inv[p].request.url)] = "joyo"
            /\ (inv[p].pc = "done" /\ inv[q].pc = "done"
                    /\ inv[p].response = inv[q].response) =>
                  /\ inv[p].fetched.value = inv[q].fetched.value
                  /\ inv[p].fetched.raised = inv[q].fetched.raised
                  /\ (IsTool(inv[p]) = IsTool(inv[q])) =>
                        /\ inv[p].outcome.k = inv[q].outcome.k
                        /\ inv[p].outcome.k = "returned" =>
                               inv[p].outcome = inv[q].outcome
                  /\ (IsTool(inv[p]) /\ IsTool(inv[q])
                          /\ inv[p].outcome.k = "raised") =>
                        /\ inv[p].outcome.error.cls = "ToolExecutionError"
                        /\ inv[q].outcome.error.cls = "ToolExecutionError"

\* Witness: both tools given the same three-kanji array returned the same
\* JSON text, the category spelled with padding.
C29_Witness ==
    /\ inv[1].pc = "done" /\ inv[1].tool = "list_joyo_kanji"
    /\ inv[2].pc = "done" /\ inv[2].tool = "get_kanji_list_by_category"
    /\ inv[2].input = PyStr(<<" ", "joyo", " ">>)
    /\ inv[1].response = Responds(200, ListBodyThree)
    /\ inv[2].response = Responds(200, ListBodyThree)
    /\ Succeeded(inv[1])
    /\ inv[1].outcome = inv[2].outcome

\* ---------------------------------------------------------------------- C30
\* The one final outcome of an ended invocation: payload, input error or
\* execution error for a kanji tool, a returned string for the profile tool.
FinalOutcome(f) ==
    IF f.tool \in KanjiTools
    THEN \/ Succeeded(f)
         \/ RaisedClass(f) \in {"ToolExecutionError", "RetryableToolError"}
    ELSE /\ f.tool = "get_user_information"
         /\ f.outcome.k = "returned"
         /\ f.outcome.value.t \in {"str", "jsontext"}

\* C30: with a transport that answers every request in flight, every
\* suspended tool invocation eventually completes; a completed invocation
\* carries exactly one final outcome; the step that follows the transport's
\* answer completes the invocation without issuing another request, and a
\* call either completes at once or suspends on its one request.
C30_Terminates ==
    /\ \A p \in Procs : (inv[p].pc = "awaiting") ~> (inv[p].pc = "done")
    /\ [](\A p \in Procs :
            /\ inv[p].pc \in {"idle", "awaiting", "done"}
            /\ inv[p].pc = "done" => FinalOutcome(inv[p])
            /\ inv[p].pc # "done" => inv[p].outcome = Pending)
    /\ [][\A p \in Procs :
            /\ (inv[p].pc = "awaiting" /\ inv'[p] # inv[p]) =>
                   (inv'[p].pc = "done"
                        /\ inv'[p].http_requests = inv[p].http_requests)
            /\ (inv[p].pc = "idle" /\ inv'[p] # inv[p]) =>
                   inv'[p].pc \in {"awaiting", "done"}]_vars

\* Witness: get_words_for_kanji("g") was suspended on its request, the read
\* timed out and the invocation ended in ToolExecutionError.
C30_Witness ==
    \E p \in Procs :
        /\ inv[p].pc = "done"
        /\ inv[p].tool = "get_words_for_kanji"
        /\ inv[p].http_requests = 1
        /\ inv[p].response = TransportRaises("ReadTimeout")
        /\ RaisedClass(inv[p]) = "ToolExecutionError"

====
